---- MODULE Spec2Model ----
(***************************************************************************)
(* Offer acquisition of the VIA demo: the remote tool client (mcp.ts), the *)
(* relevance scorer and the two thread-creation handlers (the sequential   *)
(* orchestrator of thread/route.ts and the two-pass orchestrator that      *)
(* takes an intent_plan).                                                  *)
(***************************************************************************)
EXTENDS Integers, Sequences, FiniteSets, TLC

\* ------------------------------------------------------------------ bounds
\* Largest number of stores the registry yields for the category.
MaxPool == 4
\* Longest tool list handed to pickSearchTool.
MaxTools == 3
\* Longest product list handed to pickBestProduct and longest candidate
\* array handed to normaliseProducts.
MaxProducts == 2
\* Seconds the clock runs on while one mcpPost is followed.
MaxSeconds == 14
MaxOps == 2

\* ------------------------------------------------------- program constants
TargetCount == 3
TwoPassPoolMax == 6
SeqPoolMax == 9
NumAttempts == 4
TwoPassBaseDelay == 1200
TwoPassStepDelay == 1400
SeqBaseDelay == 1400
SeqStepDelay == 1700
TermMaxLen == 32
RequiredMax == 8
PreferredMax == 10
ExcludedMax == 12
ScoreRequired == 6
ScorePreferred == 2
ScoreExcluded == 7
RejectedScore == 0 - 999
ToolsListTimeoutMs == 6000
SearchTimeoutMs == 12000

\* null / undefined of a string-valued field
Null == "null"

Max0(a) == IF a < 0 THEN 0 ELSE a
Min(a, b) == IF a < b THEN a ELSE b

\* ------------------------------------------------------------------ strings
UpperChars == "ABCDEFGHIJKLMNOPQRSTUVWXYZ"
LowerChars == "abcdefghijklmnopqrstuvwxyz"
DigitChars == "0123456789"

CharAt(s, i) == SubSeq(s, i, i)

HasChar(s, c) == \E k \in 1..Len(s) : CharAt(s, k) = c

CharsOf(s) == {CharAt(s, k) : k \in 1..Len(s)}
UpperSet == CharsOf(UpperChars)
LowerSet == CharsOf(LowerChars)
DigitSet == CharsOf(DigitChars)

LowerOf ==
  [c \in UpperSet |->
     CharAt(LowerChars, CHOOSE k \in 1..Len(UpperChars) : CharAt(UpperChars, k) = c)]
UpperOf ==
  [c \in LowerSet |->
     CharAt(UpperChars, CHOOSE k \in 1..Len(LowerChars) : CharAt(LowerChars, k) = c)]

LowerChar(c) == IF c \in UpperSet THEN LowerOf[c] ELSE c

\* String.prototype.toLowerCase
RECURSIVE ToLowerCase(_)
ToLowerCase(s) ==
  IF Len(s) = 0 THEN ""
  ELSE LowerChar(CharAt(s, 1)) \o ToLowerCase(SubSeq(s, 2, Len(s)))

\* String.prototype.includes
Includes(t, r) ==
  \E i \in 1..(Len(t) - Len(r) + 1) : SubSeq(t, i, i + Len(r) - 1) = r

\* String.prototype.trim (spaces are the only white space of the model)
RECURSIVE TrimLeft(_)
TrimLeft(s) ==
  IF Len(s) > 0 /\ CharAt(s, 1) = " " THEN TrimLeft(SubSeq(s, 2, Len(s))) ELSE s

RECURSIVE TrimRight(_)
TrimRight(s) ==
  IF Len(s) > 0 /\ CharAt(s, Len(s)) = " " THEN TrimRight(SubSeq(s, 1, Len(s) - 1)) ELSE s

Trim(s) == TrimRight(TrimLeft(s))

\* .replace(/[^a-z0-9\s-]/g, " ")
TermChar(c) == IF c \in LowerSet \cup DigitSet \cup {" ", "-"} THEN c ELSE " "

RECURSIVE ReplaceNonTerm(_)
ReplaceNonTerm(s) ==
  IF Len(s) = 0 THEN ""
  ELSE TermChar(CharAt(s, 1)) \o ReplaceNonTerm(SubSeq(s, 2, Len(s)))

\* .replace(/\s+/g, " ")
RECURSIVE CollapseSpaces(_)
CollapseSpaces(s) ==
  IF Len(s) < 2 THEN s
  ELSE IF CharAt(s, 1) = " " /\ CharAt(s, 2) = " "
       THEN CollapseSpaces(SubSeq(s, 2, Len(s)))
       ELSE CharAt(s, 1) \o CollapseSpaces(SubSeq(s, 2, Len(s)))

Slice(s, n) == SubSeq(s, 1, Min(n, Len(s)))

SeqContains(seq, x) == \E k \in 1..Len(seq) : seq[k] = x

\* ------------------------------------------------------- remote tool client
\* One HTTP exchange as the network delivers it: a transport fault (connection
\* refused, DNS failure, abort by the timeout) or a response with a status and
\* a body that parses as JSON or does not.
NoJson == [hasTools |-> FALSE, tools |-> <<>>, isError |-> FALSE, content |-> <<>>]
FaultNet == [fault |-> TRUE, status |-> 0, parses |-> FALSE, json |-> NoJson]
HttpNet(status, parses, json) ==
  [fault |-> FALSE, status |-> status, parses |-> parses, json |-> json]

\* JSON bodies: a tools/list body with or without result.tools, a tools/call
\* body with result.isError and result.content.
ToolsJson(hasTools, tools) ==
  [hasTools |-> hasTools, tools |-> tools, isError |-> FALSE, content |-> <<>>]
CallJson(isError, content) ==
  [hasTools |-> FALSE, tools |-> <<>>, isError |-> isError, content |-> content]

\* mcpPost: fetch + res.text() + JSON.parse in try/catch; try/finally without
\* a catch around fetch, so a transport fault leaves as an exception
\* (thrown = TRUE).  hasJson is `json !== null`.
mcpPost(net) ==
  IF net.fault
  THEN [thrown |-> TRUE, ok |-> FALSE, status |-> 0, hasJson |-> FALSE, json |-> NoJson]
  ELSE [thrown |-> FALSE,
        ok |-> net.status \in 200..299,
        status |-> net.status,
        hasJson |-> net.parses,
        json |-> IF net.parses THEN net.json ELSE NoJson]

\* mcpToolsList: one mcpPost; [] unless ok and json.result.tools is present.
mcpToolsList(net) ==
  LET r == mcpPost(net)
  IN IF r.thrown THEN [thrown |-> TRUE, tools |-> <<>>]
     ELSE IF ~r.ok \/ ~r.hasJson \/ ~r.json.hasTools THEN [thrown |-> FALSE, tools |-> <<>>]
     ELSE [thrown |-> FALSE, tools |-> r.json.tools]

IsSearchName(n) == Includes(ToLowerCase(n), "search")
IsCatalogName(n) ==
  LET l == ToLowerCase(n)
  IN Includes(l, "catalog") \/ Includes(l, "product") \/ Includes(l, "shop")
IsStrongName(n) == IsSearchName(n) /\ IsCatalogName(n)

FirstStrong(names) ==
  IF \E k \in 1..Len(names) : IsStrongName(names[k])
  THEN CHOOSE k \in 1..Len(names) :
         IsStrongName(names[k]) /\ \A j \in 1..(k - 1) : ~IsStrongName(names[j])
  ELSE 0

FirstSearch(names) ==
  IF \E k \in 1..Len(names) : IsSearchName(names[k])
  THEN CHOOSE k \in 1..Len(names) :
         IsSearchName(names[k]) /\ \A j \in 1..(k - 1) : ~IsSearchName(names[j])
  ELSE 0

pickSearchToolAnyFirst(names) ==
  IF SeqContains(names, "search_shop_catalog") THEN "search_shop_catalog"
  ELSE IF FirstSearch(names) # 0 THEN names[FirstSearch(names)]
  ELSE Null

\* pickSearchTool over tools.map(t => t.name); Null when nothing matches.
pickSearchTool(names) ==
  IF SeqContains(names, "search_shop_catalog") THEN "search_shop_catalog"
  ELSE IF FirstStrong(names) # 0 THEN names[FirstStrong(names)]
  ELSE IF FirstSearch(names) # 0 THEN names[FirstSearch(names)]
  ELSE Null

\* ---------------------------------------------------------------- payloads
\* A raw product of a tools/call payload.  An absent string field is Null; an
\* amount is absent ("none"), a number or a numeric string (in hundredths),
\* the empty string ("empty") or a string that is no number ("nan").
Amount(kind, hundredths) == [kind |-> kind, hundredths |-> hundredths]
NoAmount == Amount("none", 0)

RawProduct(title, name, amount, currency, priceText, image, url, handle) ==
  [title |-> title, name |-> name, amount |-> amount, currency |-> currency,
   priceText |-> priceText, image_url |-> image, url |-> url, handle |-> handle]

\* A container field of a payload object: absent, or an array.
Absent == [present |-> FALSE, arr |-> <<>>]
Arr(a) == [present |-> TRUE, arr |-> a]
Payload(products, items, results) ==
  [products |-> products, items |-> items, results |-> results,
   dataProducts |-> Absent, data |-> Absent, bare |-> Absent]
EmptyPayload == Payload(Absent, Absent, Absent)
\* {data: {products: [...]}}, {data: [...]} and a payload that is an array
DataPayload(dataProducts, data) ==
  [EmptyPayload EXCEPT !.dataProducts = dataProducts, !.data = data]
BarePayload(arr) == [EmptyPayload EXCEPT !.bare = Arr(arr)]

\* A content block: {type:"json", json} or {type:"text", text}; a text block
\* parses as JSON or does not; a json block may lack its json field.
JsonBlock(hasValue, payload) ==
  [type |-> "json", usable |-> hasValue, value |-> payload]
TextBlock(parses, payload) ==
  [type |-> "text", usable |-> parses, value |-> payload]

\* extractPayload: the first json block if it has a json field, else the first
\* text block parsed as JSON, else {text: ...}; the container itself when
\* there is no content.  Neither {text} nor the container holds products.
extractPayload(json) ==
  LET content == json.content
      jsonIdx == {k \in 1..Len(content) : content[k].type = "json"}
      textIdx == {k \in 1..Len(content) : content[k].type = "text"}
      firstOf(S) == CHOOSE k \in S : \A j \in S : k <= j
  IN IF Len(content) = 0 THEN EmptyPayload
     ELSE IF jsonIdx # {} /\ content[firstOf(jsonIdx)].usable
          THEN content[firstOf(jsonIdx)].value
     ELSE IF textIdx = {} THEN EmptyPayload
     ELSE IF content[firstOf(textIdx)].usable THEN content[firstOf(textIdx)].value
     ELSE EmptyPayload

\* firstNonEmptyString over a tuple of values (Null = not a string)
RECURSIVE firstNonEmptyString(_)
firstNonEmptyString(vals) ==
  IF Len(vals) = 0 THEN ""
  ELSE IF vals[1] # Null /\ Trim(vals[1]) # "" THEN Trim(vals[1])
  ELSE firstNonEmptyString(Tail(vals))

UpperChar(c) == IF c \in LowerSet THEN UpperOf[c] ELSE c

\* String.prototype.toUpperCase
RECURSIVE ToUpperCase(_)
ToUpperCase(s) ==
  IF Len(s) = 0 THEN ""
  ELSE UpperChar(CharAt(s, 1)) \o ToUpperCase(SubSeq(s, 2, Len(s)))

toCurrencySymbol(code) ==
  LET c == ToUpperCase(code)
  IN IF c = "GBP" THEN "£" ELSE IF c = "EUR" THEN "€" ELSE IF c = "USD" THEN "$" ELSE ""

\* String(n) of a natural number
RECURSIVE NatToString(_)
NatToString(n) ==
  IF n < 10 THEN CharAt(DigitChars, n + 1)
  ELSE NatToString(n \div 10) \o CharAt(DigitChars, (n % 10) + 1)

TwoDigits(n) == CharAt(DigitChars, (n \div 10) + 1) \o CharAt(DigitChars, (n % 10) + 1)

\* num of formatPrice: the amount itself when it is a number, Number(amount)
\* when it is a string (Number("") is 0), NaN for every other type.
ToNumber(amountRaw) ==
  IF amountRaw.kind \in {"number", "string"}
  THEN [finite |-> TRUE, hundredths |-> amountRaw.hundredths]
  ELSE IF amountRaw.kind = "empty" THEN [finite |-> TRUE, hundredths |-> 0]
  ELSE [finite |-> FALSE, hundredths |-> 0]

\* formatPrice: "" unless num is finite; integer rendering for whole amounts,
\* two decimals otherwise; symbol, "CODE " or no prefix.
formatPrice(amountRaw, currencyRaw) ==
  LET currency == IF currencyRaw = Null THEN "" ELSE Trim(ToUpperCase(currencyRaw))
      num == ToNumber(amountRaw)
  IN IF ~num.finite THEN ""
     ELSE LET h == num.hundredths
              amountStr == IF h % 100 = 0 THEN NatToString(h \div 100)
                           ELSE NatToString(h \div 100) \o "." \o TwoDigits(h % 100)
              sym == toCurrencySymbol(currency)
          IN IF sym # "" THEN sym \o amountStr
             ELSE IF currency # "" THEN currency \o " " \o amountStr
             ELSE amountStr

\* u.startsWith("http")
IsHttp(u) == Len(u) >= 4 /\ SubSeq(u, 1, 4) = "http"
StripTrailingSlash(u) ==
  IF Len(u) > 0 /\ CharAt(u, Len(u)) = "/" THEN SubSeq(u, 1, Len(u) - 1) ELSE u

\* `if (!title) continue` with title = firstNonEmptyString(title, name)
hasTitleAlways(prod) == TRUE
hasTitle(prod) == firstNonEmptyString(<<prod.title, prod.name>>) # ""

\* productUrl from the first non-empty url field and the handle: a
\* root-relative path is put behind the base, a handle becomes
\* base/products/handle, and whatever does not start with http becomes the
\* base itself.
resolveProductUrlNoFallback(url0, handle, storeBaseUrl) ==
  LET url1 == IF url0 # "" /\ CharAt(url0, 1) = "/"
              THEN StripTrailingSlash(storeBaseUrl) \o url0 ELSE url0
  IN IF (url1 = "" \/ ~IsHttp(url1)) /\ handle # ""
     THEN StripTrailingSlash(storeBaseUrl) \o "/products/" \o handle ELSE url1
resolveProductUrl(url0, handle, storeBaseUrl) ==
  LET url1 == IF url0 # "" /\ CharAt(url0, 1) = "/"
              THEN StripTrailingSlash(storeBaseUrl) \o url0 ELSE url0
      url2 == IF (url1 = "" \/ ~IsHttp(url1)) /\ handle # ""
              THEN StripTrailingSlash(storeBaseUrl) \o "/products/" \o handle ELSE url1
  IN IF url2 = "" \/ ~IsHttp(url2) THEN storeBaseUrl ELSE url2

\* The body of the loop of normaliseProducts for one titled candidate.
normaliseOne(prod, storeBaseUrl) ==
  LET title == firstNonEmptyString(<<prod.title, prod.name>>)
      formatted == formatPrice(prod.amount, prod.currency)
      priceText == IF formatted # "" THEN formatted
                   ELSE firstNonEmptyString(<<prod.priceText>>)
      imageUrl == firstNonEmptyString(<<prod.image_url>>)
      url0 == firstNonEmptyString(<<prod.url>>)
      handle == firstNonEmptyString(<<prod.handle>>)
  IN [title |-> title, priceText |-> priceText, imageUrl |-> imageUrl,
      productUrl |-> resolveProductUrl(url0, handle, storeBaseUrl)]

RECURSIVE normaliseArr(_, _)
normaliseArr(arr, storeBaseUrl) ==
  IF Len(arr) = 0 THEN <<>>
  ELSE LET rest == normaliseArr(Tail(arr), storeBaseUrl)
       IN IF ~hasTitle(arr[1]) THEN rest
          ELSE <<normaliseOne(arr[1], storeBaseUrl)>> \o rest

\* normaliseProducts: candidates = products ?? items ?? results ??
\* data.products ?? data ?? payload ?? [] (the first container that is
\* present, empty or not), then one product per titled candidate, in source
\* order.
normaliseProducts(payload, storeBaseUrl) ==
  LET candidates == IF payload.products.present THEN payload.products.arr
                    ELSE IF payload.items.present THEN payload.items.arr
                    ELSE IF payload.results.present THEN payload.results.arr
                    ELSE IF payload.dataProducts.present THEN payload.dataProducts.arr
                    ELSE IF payload.data.present THEN payload.data.arr
                    ELSE IF payload.bare.present THEN payload.bare.arr
                    ELSE <<>>
  IN normaliseArr(candidates, storeBaseUrl)

\* mcpSearchProducts against an endpoint that answers tools/list with
\* listNet and the k-th tools/call with callNets[k].  thrown = TRUE is a
\* rejected promise; `requests` counts the tools/call requests sent.
SearchResult(thrown, ok, products, toolUsed, error, requests) ==
  [thrown |-> thrown, ok |-> ok, products |-> products, toolUsed |-> toolUsed,
   error |-> error, requests |-> requests]

\* the argument shapes of `attempts`, in the order they are tried
AttemptShapes == <<"query,limit", "query,first", "query,count", "q,limit">>

\* One iteration of the loop over `attempts` ends in `return {ok: true ...}`:
\* r.ok, r.json, no isError on the container and some normalised product.
attemptUsableIgnoringIsError(r, products) == r.ok /\ r.hasJson /\ Len(products) > 0
attemptUsable(r, products) ==
  r.ok /\ r.hasJson /\ ~r.json.isError /\ Len(products) > 0

RECURSIVE searchAttempts(_, _, _, _)
searchAttempts(callNets, k, toolName, storeBaseUrl) ==
  IF k > NumAttempts
  THEN SearchResult(FALSE, FALSE, <<>>, toolName, "Search returned no products", NumAttempts)
  ELSE LET r == mcpPost(callNets[k])
           products == normaliseProducts(extractPayload(r.json), storeBaseUrl)
       IN IF r.thrown THEN SearchResult(TRUE, FALSE, <<>>, toolName, Null, k)
          ELSE IF attemptUsable(r, products)
               THEN SearchResult(FALSE, TRUE, products, toolName, Null, k)
          ELSE searchAttempts(callNets, k + 1, toolName, storeBaseUrl)

mcpSearchProducts(listNet, callNets, storeBaseUrl) ==
  LET tl == mcpToolsList(listNet)
  IN IF tl.thrown THEN SearchResult(TRUE, FALSE, <<>>, Null, Null, 0)
     ELSE IF Len(tl.tools) = 0
          THEN SearchResult(FALSE, FALSE, <<>>, Null, "No tools/list response", 0)
     ELSE IF pickSearchTool(tl.tools) = Null
          THEN SearchResult(FALSE, FALSE, <<>>, Null, "No search tool found", 0)
     ELSE searchAttempts(callNets, 1, pickSearchTool(tl.tools), storeBaseUrl)

\* ------------------------------------------------------- relevance scorer
\* toTerms: lower-case, clean, trim and cut each raw term, skip the empty and
\* the repeated ones, stop at max terms.
cleanTerm(raw) ==
  Slice(Trim(CollapseSpaces(ReplaceNonTerm(ToLowerCase(raw)))), TermMaxLen)

RECURSIVE toTermsFrom(_, _, _)
toTermsFrom(items, out, max) ==
  IF Len(items) = 0 \/ Len(out) >= max THEN out
  ELSE LET t == cleanTerm(items[1])
       IN IF t = "" \/ SeqContains(out, t) THEN toTermsFrom(Tail(items), out, max)
          ELSE toTermsFrom(Tail(items), Append(out, t), max)

toTerms(arr, max) == toTermsFrom(arr, <<>>, max)

CountMatches(t, terms) == Cardinality({k \in 1..Len(terms) : Includes(t, terms[k])})

\* `if (strictRequired && required.length > 0)`: some required term is not
\* in the title
missingRequiredNever(t, required, strictRequired) == FALSE
missingRequired(t, required, strictRequired) ==
  strictRequired /\ \E k \in 1..Len(required) : ~Includes(t, required[k])

\* `if (hasExcluded && !hasAnyRequired)`
excludedDominatesNever(t, required, excluded) == FALSE
excludedDominates(t, required, excluded) ==
  /\ \E k \in 1..Len(excluded) : Includes(t, excluded[k])
  /\ ~\E k \in 1..Len(required) : Includes(t, required[k])

\* scoreTitle(title, plan, strictRequired) -> {score, rejected}
scoreTitle(title, plan, strictRequired) ==
  LET t == ToLowerCase(title)
      required == toTerms(plan.required_terms, RequiredMax)
      preferred == toTerms(plan.preferred_terms, PreferredMax)
      excluded == toTerms(plan.excluded_terms, ExcludedMax)
  IN IF t = "" THEN [score |-> RejectedScore, rejected |-> TRUE]
     ELSE IF missingRequired(t, required, strictRequired)
          THEN [score |-> RejectedScore, rejected |-> TRUE]
     ELSE IF excludedDominates(t, required, excluded)
          THEN [score |-> RejectedScore, rejected |-> TRUE]
     ELSE [score |-> ScoreRequired * CountMatches(t, required)
                     + ScorePreferred * CountMatches(t, preferred)
                     - ScoreExcluded * CountMatches(t, excluded),
           rejected |-> FALSE]

\* pickBestProduct: index of the best product, 0 for null.  The running best
\* starts at score -999 and is replaced only by a strictly greater score.
betterOrEqual(score, bestScore) == score >= bestScore
\* `if (s.score > bestScore)`
better(score, bestScore) == score > bestScore

RECURSIVE pickBestFrom(_, _, _, _, _, _)
pickBestFrom(products, plan, strictRequired, k, best, bestScore) ==
  IF k > Len(products) THEN best
  ELSE LET s == scoreTitle(products[k].title, plan, strictRequired)
       IN IF ~s.rejected /\ better(s.score, bestScore)
          THEN pickBestFrom(products, plan, strictRequired, k + 1, k, s.score)
          ELSE pickBestFrom(products, plan, strictRequired, k + 1, best, bestScore)

pickBestProduct(products, plan, strictRequired) ==
  pickBestFrom(products, plan, strictRequired, 1, 0, RejectedScore)

\* --------------------------------------- helpers of the sequential handler
KeyWords ==
  <<"helmet", "sneakers", "trainer", "shoe", "jacket", "boots",
    "leash", "collar", "treats", "kibble", "litter", "toy">>

\* extractKeyItemWord: the first keyword of the list the text includes
extractKeyItemWord(requestText) ==
  LET t == ToLowerCase(requestText)
      hits == {k \in 1..Len(KeyWords) : Includes(t, KeyWords[k])}
  IN IF hits = {} THEN Null
     ELSE KeyWords[CHOOSE k \in hits : \A j \in hits : k <= j]

matchesKeyWord(title, key) ==
  IF key = Null THEN TRUE ELSE Includes(ToLowerCase(title), ToLowerCase(key))

isUsableLiveProduct(p) ==
  /\ p.title # ""
  /\ p.imageUrl # "" /\ ~Includes(p.imageUrl, "placehold.co")
  /\ p.productUrl # "" /\ p.productUrl # "#"

\* r.products.find(p => matchesKeyWord(p.title, keyWord)) || r.products[0]
matchedProduct(products, keyWord) ==
  LET hits == {k \in 1..Len(products) : matchesKeyWord(products[k].title, keyWord)}
  IN IF hits = {} THEN products[1]
     ELSE products[CHOOSE k \in hits : \A j \in hits : k <= j]

containsAny(s, needles) ==
  LET x == ToLowerCase(s) IN \E k \in 1..Len(needles) : Includes(x, needles[k])

classifyIntent(requestText) ==
  LET t == ToLowerCase(requestText)
  IN IF containsAny(t, <<"sneaker", "trainers", "running shoe", "air max", "dunk",
                         "jordans", "nike", "adidas", "new balance", "asics">>)
     THEN "sneakers"
     ELSE IF containsAny(t, <<"hike", "hiking", "trail", "waterproof", "gore", "camp",
                              "camping", "tent", "backpack", "rucksack", "outdoor",
                              "jacket", "boots">>)
     THEN "outdoor"
     ELSE IF containsAny(t, <<"cycle", "cycling", "bike", "bicycle", "mtb", "road bike",
                              "jersey", "bib", "helmet", "cleats", "shimano", "sram">>)
     THEN "cycling"
     ELSE IF containsAny(t, <<"pet", "dog", "cat", "kitten", "puppy", "leash", "collar",
                              "litter", "kibble", "treats", "groom", "toy">>)
     THEN "pet"
     ELSE "other"

\* normaliseStoreCategory of the two-pass handler
normaliseStoreCategory(planCat, fallbackText) ==
  LET c == Trim(ToUpperCase(IF planCat = Null THEN "" ELSE planCat))
      k == classifyIntent(fallbackText)
  IN IF c = "SNEAKERS" THEN "sneakers"
     ELSE IF c = "OUTDOORS" THEN "outdoor"
     ELSE IF c = "CYCLING" THEN "cycling"
     ELSE IF c = "PET_SUPPLIES" THEN "pet"
     ELSE IF k \in {"sneakers", "outdoor", "cycling"} THEN k
     ELSE "pet"

\* ------------------------------------------------------------------ offers
Offer(id, sellerId, headline, imageUrl, productUrl, pricePence, priceText, deliveryDays, label, replyClass, delay, sourceLabel, policy) ==
  [id |-> id, sellerId |-> sellerId, headline |-> headline, imageUrl |-> imageUrl,
   productUrl |-> productUrl, pricePence |-> pricePence,
   priceTextOverride |-> priceText, deliveryDays |-> deliveryDays,
   reliabilityLabel |-> label, replyClass |-> replyClass, arrivalDelayMs |-> delay,
   sourceLabel |-> sourceLabel, policy |-> policy]

Policy(minPrice, canUpgrade, fee, maxDiscount) ==
  [minPricePence |-> minPrice, canUpgradeDelivery |-> canUpgrade,
   upgradeFeePence |-> fee, maxDiscountPence |-> maxDiscount]

\* offerFromMcpProduct; nonce stands for the random suffix of the id
offerFromMcpProduct(storeId, title, priceText, imageUrl, productUrl, delay, label, nonce) ==
  Offer("o_" \o storeId \o "_" \o NatToString(nonce), storeId, title,
        IF imageUrl = "" THEN "https://placehold.co/600x400/png?text=Product" ELSE imageUrl,
        IF productUrl = "" THEN "#" ELSE productUrl,
        0, priceText, 3, label, "normal", delay, "Live store response",
        Policy(0, TRUE, 500, 700))

MockOffer(n, sellerId, headline, pricePence, deliveryDays, label, replyClass, delay, policy) ==
  Offer("o_mock" \o NatToString(n), sellerId, headline, "https://placehold.co/600x400/png",
        "#", pricePence, Null, deliveryDays, label, replyClass, delay,
        "Live pricing, curated sellers", policy)

makeOffersForCategory(category) ==
  IF category = "sneakers" THEN
    << MockOffer(1, "seller_alpha", "Runner Court Low (white)", 12500, 2, "Reliable", "fast",
                 700, Policy(11800, TRUE, 600, 700)),
       MockOffer(2, "seller_drhobbs", "Street Mono Trainer (black)", 13900, 3, "Verified",
                 "normal", 1400, Policy(13200, TRUE, 500, 800)),
       MockOffer(3, "seller_peak", "Retro Mesh Runner (silver)", 11900, 4, "New", "normal",
                 2200, Policy(11200, FALSE, 0, 600)) >>
  ELSE IF category = "cycling" THEN
    << MockOffer(1, "seller_alpha", "Road Jersey, breathable", 8900, 2, "Reliable", "fast",
                 800, Policy(8200, TRUE, 450, 500)),
       MockOffer(2, "seller_drhobbs", "Bib shorts, endurance fit", 12900, 3, "Verified",
                 "normal", 1500, Policy(12000, TRUE, 500, 700)),
       MockOffer(3, "seller_peak", "Helmet, commuter safe", 7400, 4, "New", "normal",
                 2300, Policy(7000, FALSE, 0, 400)) >>
  ELSE IF category = "pet" THEN
    << MockOffer(1, "seller_alpha", "Dog treats, grain free", 1900, 2, "Reliable", "fast",
                 700, Policy(1700, TRUE, 200, 200)),
       MockOffer(2, "seller_drhobbs", "Leash and collar set", 3200, 3, "Verified", "normal",
                 1500, Policy(2900, TRUE, 250, 300)),
       MockOffer(3, "seller_peak", "Cat toy bundle", 1600, 4, "New", "normal",
                 2400, Policy(1500, FALSE, 0, 100)) >>
  ELSE
    << MockOffer(1, "seller_alpha", "Waterproof daypack (20L)", 7900, 3, "Reliable", "fast",
                 800, Policy(7400, TRUE, 500, 500)),
       MockOffer(2, "seller_drhobbs", "All-weather shell jacket", 14900, 2, "Verified",
                 "normal", 1400, Policy(14000, TRUE, 600, 800)),
       MockOffer(3, "seller_peak", "Trail boots, rugged sole", 13900, 4, "New", "normal",
                 2100, Policy(13200, FALSE, 0, 600)) >>

\* ---------------------------------------------------------- store registry
Store(id, name, category, domain, mcpUrl, weight) ==
  [id |-> id, name |-> name, category |-> category, domain |-> domain,
   mcpUrl |-> mcpUrl, enabled |-> TRUE, weight |-> weight]

\* The k-th cycling store of data/mcp_stores.json as loadStoreRegistry
\* returns it (entries without id, name, mcpUrl, category or enabled flag
\* are dropped there).
CyclingStore(k) ==
  Store("s" \o NatToString(k), "Store " \o NatToString(k), "cycling",
        IF k % 2 = 0 THEN Null ELSE "s" \o NatToString(k) \o ".example",
        "https://s" \o NatToString(k) \o ".example/api/mcp",
        IF k = 1 THEN 120 ELSE IF k < 4 THEN 100 ELSE 100 - 10 * (k - 3))

OtherStores ==
  << Store("allbirds", "Allbirds", "sneakers", "allbirds.example",
           "https://allbirds.example/api/mcp", 150),
     Store("kicks", "Kicks", "sneakers", Null, "https://kicks.example/api/mcp/", 100) >>

RegistryOf(n) == [k \in 1..n |-> CyclingStore(k)] \o OtherStores

DEMO_EXCLUDE_IDS == {"allbirds"}

CharRank(c) ==
  LET alphabet == "-0123456789_abcdefghijklmnopqrstuvwxyz"
  IN IF HasChar(alphabet, c) THEN CHOOSE k \in 1..Len(alphabet) : CharAt(alphabet, k) = c
     ELSE 0

\* a.localeCompare(b) < 0 for ids of lower-case letters and digits
RECURSIVE StrLess(_, _)
StrLess(a, b) ==
  IF Len(b) = 0 THEN FALSE
  ELSE IF Len(a) = 0 THEN TRUE
  ELSE IF CharRank(CharAt(a, 1)) # CharRank(CharAt(b, 1))
       THEN CharRank(CharAt(a, 1)) < CharRank(CharAt(b, 1))
  ELSE StrLess(SubSeq(a, 2, Len(a)), SubSeq(b, 2, Len(b)))

\* stores.filter(s => s.enabled && s.category === category) and, with a
\* non-empty exclude set, .filter(s => !exclude.has(s.id.toLowerCase()))
RECURSIVE filterStores(_, _, _)
filterStores(stores, category, exclude) ==
  IF Len(stores) = 0 THEN <<>>
  ELSE LET s == stores[1]
           rest == filterStores(Tail(stores), category, exclude)
       IN IF s.enabled /\ s.category = category /\ ToLowerCase(s.id) \notin exclude
          THEN <<s>> \o rest ELSE rest

StoreWeight(s) == IF s.weight < 1 THEN 1 ELSE s.weight

\* the comparator of pickStoresForCategory: weight descending, id ascending
StoreBeforeByIdOnly(a, b) == StrLess(a.id, b.id)
StoreBefore(a, b) ==
  IF StoreWeight(a) # StoreWeight(b) THEN StoreWeight(a) > StoreWeight(b)
  ELSE StrLess(a.id, b.id)

RECURSIVE InsertSorted(_, _)
InsertSorted(sorted, x) ==
  IF Len(sorted) = 0 THEN <<x>>
  ELSE IF StoreBefore(x, sorted[1]) THEN <<x>> \o sorted
  ELSE <<sorted[1]>> \o InsertSorted(Tail(sorted), x)

RECURSIVE SortStores(_)
SortStores(seq) ==
  IF Len(seq) = 0 THEN <<>>
  ELSE InsertSorted(SortStores(SubSeq(seq, 1, Len(seq) - 1)), seq[Len(seq)])

\* `now` of rotationOffset: a UTC date and time of day
UtcTime(year, month, day, hour, minute) ==
  [year |-> year, month |-> month, day |-> day, hour |-> hour, minute |-> minute]

\* key of rotationOffset: year, month, day and hour of `now` in UTC
utcMinuteKey(now) ==
  now.year * 1000000 + now.month * 10000 + now.day * 100 + now.hour + now.minute
utcHourKey(now) == now.year * 1000000 + now.month * 10000 + now.day * 100 + now.hour

rotationOffset(itemsLen, key) == IF itemsLen <= 0 THEN 0 ELSE key % itemsLen

rotate(arr, offset) ==
  IF Len(arr) = 0 THEN arr
  ELSE LET o == offset % Len(arr)
       IN IF o = 0 THEN arr
          ELSE SubSeq(arr, o + 1, Len(arr)) \o SubSeq(arr, 1, o)

\* pickStoresForCategory(stores, category, n) at the hour `key`
pickStoresForCategory(stores, category, n, key) ==
  LET weighted == SortStores(filterStores(stores, category, DEMO_EXCLUDE_IDS))
      rotated == rotate(weighted, rotationOffset(Len(weighted), key))
  IN SubSeq(rotated, 1, Min(n, Len(rotated)))

\* pickCandidateStores of the sequential handler: a random shuffle of the
\* enabled stores of the category, then a stable sort by weight descending:
\* every order of the stores in which the weights do not increase.
pickCandidateStores(stores, category, max) ==
  LET filtered == filterStores(stores, category, {})
      m == Len(filtered)
      perms == {f \in [1..m -> 1..m] : \A i, j \in 1..m : i # j => f[i] # f[j]}
  IN {SubSeq([k \in 1..m |-> filtered[f[k]]], 1, Min(max, m)) :
        f \in {g \in perms : \A i \in 1..(m - 1) :
                 filtered[g[i]].weight >= filtered[g[i + 1]].weight}}

\* s.domain ? `https://${s.domain}` : s.mcpUrl.replace(/\/api\/mcp\/?$/i, "")
StripMcpSuffix(u) ==
  LET l == ToLowerCase(u)
      n == Len(u)
  IN IF n >= 9 /\ SubSeq(l, n - 8, n) = "/api/mcp/" THEN SubSeq(u, 1, n - 9)
     ELSE IF n >= 8 /\ SubSeq(l, n - 7, n) = "/api/mcp" THEN SubSeq(u, 1, n - 8)
     ELSE u

storeBaseUrl(s) == IF s.domain # Null THEN "https://" \o s.domain ELSE StripMcpSuffix(s.mcpUrl)

\* ------------------------------------------------- what the endpoints answer
HelmetRaw ==
  RawProduct("Commuter Helmet, Matte Black", Null, Amount("string", 4500), "GBP", Null,
             "https://cdn.example/helmet.png", "/products/helmet", Null)
SunHatRaw ==
  RawProduct("Sun Hat", Null, NoAmount, Null, "£12",
             "https://cdn.example/hat.png", "https://shop.example/products/sun-hat", Null)
GlovesRaw ==
  RawProduct(Null, "Cycling Gloves", Amount("number", 1950), "usd", Null, Null, Null, "gloves")
UntitledRaw ==
  RawProduct(Null, " ", Amount("number", 100), "GBP", Null, Null, Null, Null)

SearchTools == ToolsJson(TRUE, <<"get_cart", "search_shop_catalog">>)
LooseTools == ToolsJson(TRUE, <<"get_cart", "Search_Products">>)

ListOk == HttpNet(200, TRUE, SearchTools)
CallProducts(arr) ==
  HttpNet(200, TRUE, CallJson(FALSE, <<TextBlock(TRUE, Payload(Arr(arr), Absent, Absent))>>))
CallItems(arr) ==
  HttpNet(200, TRUE, CallJson(FALSE, <<JsonBlock(TRUE, Payload(Absent, Arr(arr), Absent))>>))
CallHttp500 == HttpNet(500, TRUE, CallJson(FALSE, <<>>))
CallNonJson == HttpNet(200, FALSE, NoJson)
CallIsError == HttpNet(200, TRUE, CallJson(TRUE, <<TextBlock(FALSE, EmptyPayload)>>))
CallEmpty == CallProducts(<<>>)
\* {jsonrpc, id, error: {code, message}}: no result, no content
CallRpcError == HttpNet(200, TRUE, CallJson(FALSE, <<>>))
\* isError: true although the content carries products
CallIsErrorProducts ==
  HttpNet(200, TRUE,
          CallJson(TRUE, <<TextBlock(TRUE, Payload(Arr(<<HelmetRaw>>), Absent, Absent))>>))
\* {data: {products: [...]}} in a text block
CallDataProducts(arr) ==
  HttpNet(200, TRUE, CallJson(FALSE, <<TextBlock(TRUE, DataPayload(Arr(arr), Absent))>>))

Behaviour(list, calls) == [list |-> list, calls |-> calls]

\* The answers one endpoint gives to tools/list and to the successive
\* tools/call requests of one mcpSearchProducts.
Behaviours ==
  { Behaviour(FaultNet, <<FaultNet, FaultNet, FaultNet, FaultNet>>),
    Behaviour(HttpNet(500, TRUE, SearchTools), <<CallEmpty, CallEmpty, CallEmpty, CallEmpty>>),
    Behaviour(HttpNet(200, FALSE, NoJson), <<CallEmpty, CallEmpty, CallEmpty, CallEmpty>>),
    Behaviour(HttpNet(200, TRUE, ToolsJson(FALSE, <<>>)),
              <<CallEmpty, CallEmpty, CallEmpty, CallEmpty>>),
    Behaviour(HttpNet(200, TRUE, ToolsJson(TRUE, <<"get_cart">>)),
              <<CallEmpty, CallEmpty, CallEmpty, CallEmpty>>),
    Behaviour(ListOk, <<CallHttp500, CallNonJson, CallIsError, CallEmpty>>),
    Behaviour(ListOk, <<CallRpcError, CallIsErrorProducts, CallNonJson, CallHttp500>>),
    Behaviour(HttpNet(200, TRUE, LooseTools),
              <<CallHttp500, FaultNet, CallEmpty, CallEmpty>>),
    Behaviour(ListOk, <<CallProducts(<<HelmetRaw>>), CallEmpty, CallEmpty, CallEmpty>>),
    Behaviour(ListOk, <<CallHttp500, CallItems(<<SunHatRaw>>), CallEmpty, CallEmpty>>),
    Behaviour(ListOk, <<CallIsErrorProducts, CallDataProducts(<<SunHatRaw>>), CallEmpty,
                        CallEmpty>>),
    Behaviour(ListOk, <<CallProducts(<<UntitledRaw>>), CallEmpty, CallNonJson,
                        CallItems(<<HelmetRaw>>)>>),
    Behaviour(ListOk, <<CallIsError, CallEmpty, CallEmpty,
                        CallProducts(<<UntitledRaw, GlovesRaw>>)>>) }

KnownStores == {CyclingStore(k) : k \in 1..MaxPool}

\* What mcpSearchProducts can return (or throw) for each store.
SearchOutcomes ==
  [s \in KnownStores |->
     {mcpSearchProducts(b.list, b.calls, storeBaseUrl(s)) : b \in Behaviours}]

\* ------------------------------------------------------------- the requests
IntentPlan(present, category, required, preferred, excluded, query, broadcast) ==
  [present |-> present, category |-> category, required_terms |-> required,
   preferred_terms |-> preferred, excluded_terms |-> excluded,
   search_query |-> query, broadcast_intent |-> broadcast]

NoPlan == IntentPlan(FALSE, Null, <<>>, <<>>, <<>>, "", "")
HelmetPlan ==
  IntentPlan(TRUE, "CYCLING", <<"Helmet">>, <<"black", "matte", "black">>, <<"hat">>,
             "commuter helmet", "Commuter helmet, matte black")

Body(handler, requestText, plan, debugFlag) ==
  [handler |-> handler, requestText |-> requestText, intent_plan |-> plan,
   debug |-> debugFlag]

Bodies ==
  { Body("twopass", "bike helmet", HelmetPlan, TRUE),
    Body("twopass", "bike helmet", NoPlan, FALSE),
    Body("twopass", " ", NoPlan, FALSE),
    Body("sequential", "bike helmet", NoPlan, TRUE),
    Body("sequential", "road jersey", NoPlan, FALSE),
    Body("sequential", "", NoPlan, TRUE) }

\* the hour of the request: year*1000000 + month*10000 + day*100 + hour
HourKeys == {2026110113}

\* now - createdAt when the response is built, in ms
Elapsed == {0, 3000}

\* ------------------------------------------------------------------ thread
Event(who, text) == [who |-> who, text |-> text]

Thread(requestText, category, offers, events) ==
  [requestText |-> requestText, category |-> category, status |-> "COLLECTING_OFFERS",
   selectedOfferId |-> Null, offers |-> offers, events |-> events,
   terms |-> [pricePence |-> 0 - 1, deliveryDays |-> 0 - 1, notes |-> <<>>],
   confirmed |-> FALSE]

NoThread == Thread("", "other", <<>>, <<>>)

makeInitialThread(requestText) ==
  LET category == classifyIntent(requestText)
  IN Thread(Trim(requestText), category, makeOffersForCategory(category),
            << Event("You", Trim(requestText)),
               Event("Your assistant",
                     "Got it. I'm collecting offers from participating sellers now.") >>)

RECURSIVE insertByDelay(_, _)
insertByDelay(sorted, o) ==
  IF Len(sorted) = 0 THEN <<o>>
  ELSE IF o.arrivalDelayMs < sorted[1].arrivalDelayMs THEN <<o>> \o sorted
  ELSE <<sorted[1]>> \o insertByDelay(Tail(sorted), o)

RECURSIVE sortByDelay(_)
sortByDelay(offers) ==
  IF Len(offers) = 0 THEN <<>>
  ELSE insertByDelay(sortByDelay(SubSeq(offers, 1, Len(offers) - 1)), offers[Len(offers)])

RECURSIVE filterArrived(_, _)
filterArrived(offers, elapsed) ==
  IF Len(offers) = 0 THEN <<>>
  ELSE IF elapsed >= offers[1].arrivalDelayMs
       THEN <<offers[1]>> \o filterArrived(Tail(offers), elapsed)
  ELSE filterArrived(Tail(offers), elapsed)

\* visibleOffers(t, now) with elapsed = now - createdAt
visibleOffersUnfiltered(t, elapsed) == sortByDelay(t.offers)
visibleOffers(t, elapsed) == sortByDelay(filterArrived(t.offers, elapsed))

\* ------------------------------------------------------------- the session
\* null of terms.pricePence and terms.deliveryDays
NullNumber == 0 - 1

\* An offer with the two fields of Offer that the negotiation reads.
SessionOffer(o, sellerName, currency) ==
  [id |-> o.id, sellerId |-> o.sellerId, sellerName |-> sellerName,
   headline |-> o.headline, imageUrl |-> o.imageUrl, productUrl |-> o.productUrl,
   pricePence |-> o.pricePence, currency |-> currency,
   priceTextOverride |-> o.priceTextOverride, deliveryDays |-> o.deliveryDays,
   reliabilityLabel |-> o.reliabilityLabel, replyClass |-> o.replyClass,
   arrivalDelayMs |-> o.arrivalDelayMs, sourceLabel |-> o.sourceLabel,
   policy |-> o.policy]

\* InternalThread: the thread with its id and its creation time (ms)
SessionThread(threadId, createdAt, t, offers) ==
  [v |-> 1, threadId |-> threadId, createdAt |-> createdAt, mode |-> "buyer",
   requestText |-> t.requestText, category |-> t.category, status |-> t.status,
   selectedOfferId |-> t.selectedOfferId, offers |-> offers, events |-> t.events,
   terms |-> t.terms, confirmed |-> t.confirmed]

NoSessionThread == SessionThread("", 0, NoThread, <<>>)

\* toPriceText: (pence / 100).toFixed(0) behind the symbol or the code
toPriceText(pence, currency) ==
  LET v == NatToString((pence + 50) \div 100)
      c == ToUpperCase(currency)
  IN IF c = "GBP" THEN "£" \o v
     ELSE IF c = "USD" THEN "$" \o v
     ELSE IF c = "EUR" THEN "€" \o v
     ELSE Trim(c \o " " \o v)

deliveryText(days) ==
  IF days <= 1 THEN "Delivery: next day"
  ELSE IF days = 2 THEN "Delivery: 2 days"
  ELSE "Delivery: " \o NatToString(days) \o " days"

\* t.offers.find(o => o.id === offerId): its index, 0 when there is none
findOfferOrFirst(offers, offerId) ==
  LET hits == {k \in 1..Len(offers) : offers[k].id = offerId}
  IN IF hits = {} THEN Min(1, Len(offers)) ELSE CHOOSE k \in hits : \A j \in hits : k <= j
findOffer(offers, offerId) ==
  LET hits == {k \in 1..Len(offers) : offers[k].id = offerId}
  IN IF hits = {} THEN 0 ELSE CHOOSE k \in hits : \A j \in hits : k <= j

selectOfferDroppingOthers(t, offerId) ==
  LET k == findOffer(t.offers, offerId)
  IN IF k = 0 THEN t
     ELSE [t EXCEPT !.status = "OFFER_SELECTED", !.selectedOfferId = offerId,
                    !.offers = <<t.offers[k]>>]
selectOfferInThread(t, offerId) ==
  LET k == findOffer(t.offers, offerId)
  IN IF k = 0 THEN t
     ELSE LET offer == t.offers[k]
          IN [t EXCEPT
                !.status = "OFFER_SELECTED",
                !.selectedOfferId = offerId,
                !.events = @ \o
                  << Event("Your assistant",
                           "I'll speak to " \o offer.sellerName
                             \o " based on this offer and come back with agreed terms."),
                     Event("Seller assistant",
                           "Thanks. I can confirm availability. Tell me if you want delivery changes or price adjustments.") >>,
                !.terms = [pricePence |-> offer.pricePence,
                           deliveryDays |-> offer.deliveryDays, notes |-> <<>>]]

\* the seller's answer of buyerMessage: new price, delivery, notes and reply
negotiateUnclamped(offer, terms, text) ==
  LET price == IF terms.pricePence = NullNumber THEN offer.pricePence
               ELSE terms.pricePence
      delivery == IF terms.deliveryDays = NullNumber THEN offer.deliveryDays
                  ELSE terms.deliveryDays
  IN IF containsAny(text, <<"discount">>)
     THEN [pricePence |-> price - offer.policy.maxDiscountPence, deliveryDays |-> delivery,
           notes |-> Append(terms.notes, "Price adjusted"), reply |-> "Updated terms."]
     ELSE [pricePence |-> price, deliveryDays |-> delivery, notes |-> terms.notes,
           reply |-> "Current terms remain."]
negotiate(offer, terms, text) ==
  LET price == IF terms.pricePence = NullNumber THEN offer.pricePence
               ELSE terms.pricePence
      delivery == IF terms.deliveryDays = NullNumber THEN offer.deliveryDays
                  ELSE terms.deliveryDays
      wantsFaster == containsAny(text, <<"next day", "tomorrow", "express",
                                         "fast delivery", "overnight">>)
      wantsDiscount == containsAny(text, <<"discount", "cheaper", "best price", "lower",
                                           "reduce", "deal", "%">>)
      target == IF price - offer.policy.maxDiscountPence > offer.policy.minPricePence
                THEN price - offer.policy.maxDiscountPence
                ELSE offer.policy.minPricePence
      stated(p, d) == toPriceText(p, offer.currency) \o " with " \o deliveryText(d)
  IN IF wantsFaster
     THEN IF offer.policy.canUpgradeDelivery /\ delivery > 1
          THEN LET p == price + offer.policy.upgradeFeePence
                   d == IF delivery - 1 < 1 THEN 1 ELSE delivery - 1
               IN [pricePence |-> p, deliveryDays |-> d,
                   notes |-> Append(terms.notes, "Delivery upgraded"),
                   reply |-> "I can upgrade delivery. Updated terms: " \o stated(p, d)
                               \o "."]
          ELSE [pricePence |-> price, deliveryDays |-> delivery, notes |-> terms.notes,
                reply |-> "I can't upgrade delivery on this one. Current terms remain: "
                            \o stated(price, delivery) \o "."]
     ELSE IF wantsDiscount
     THEN IF target < price
          THEN [pricePence |-> target, deliveryDays |-> delivery,
                notes |-> Append(terms.notes, "Price adjusted"),
                reply |-> "I can improve the price slightly. Updated terms: "
                            \o stated(target, delivery) \o "."]
          ELSE [pricePence |-> price, deliveryDays |-> delivery, notes |-> terms.notes,
                reply |-> "I'm already at the best price I can do for this. Current terms: "
                            \o stated(price, delivery) \o "."]
     ELSE [pricePence |-> price, deliveryDays |-> delivery, notes |-> terms.notes,
           reply |-> "Understood. Current terms are " \o stated(price, delivery)
                       \o ". Ask for delivery speed or price if you want changes."]

buyerMessageUnselected(t, text) ==
  [t EXCEPT !.status = "AGREED",
            !.events = @ \o << Event("You", Trim(text)),
                               Event("Seller assistant", "Understood.") >>]
buyerMessage(t, text) ==
  LET k == IF t.selectedOfferId = Null THEN 0 ELSE findOffer(t.offers, t.selectedOfferId)
      said == Append(t.events, Event("You", Trim(text)))
  IN IF k = 0
     THEN [t EXCEPT !.events =
             Append(said, Event("Your assistant",
                                "Pick an offer first, then I can negotiate with that seller."))]
     ELSE LET n == negotiate(t.offers[k], t.terms, text)
          IN [t EXCEPT !.status = "AGREED",
                       !.events = Append(said, Event("Seller assistant", n.reply)),
                       !.terms = [pricePence |-> n.pricePence,
                                  deliveryDays |-> n.deliveryDays, notes |-> n.notes]]

confirmWhatever(t) ==
  [t EXCEPT !.status = "COMPLETED", !.confirmed = TRUE,
            !.events = @ \o
              << Event("Your assistant",
                       "Confirmed. Order placed and instantly acknowledged by the seller."),
                 Event("Seller assistant",
                       "Confirmed on my side. I'll send tracking as soon as it ships.") >>]
confirmThread(t) ==
  IF t.status # "AGREED"
  THEN [t EXCEPT !.events =
          Append(@, Event("Your assistant",
                          "We need clear agreed terms first. Ask a follow-up, then confirm."))]
  ELSE [t EXCEPT !.status = "COMPLETED", !.confirmed = TRUE,
                 !.events = @ \o
                   << Event("Your assistant",
                            "Confirmed. Order placed and instantly acknowledged by the seller."),
                      Event("Seller assistant",
                            "Confirmed on my side. I'll send tracking as soon as it ships.") >>]

categoryLabel(c) ==
  IF c = "sneakers" THEN "Sneakers"
  ELSE IF c = "outdoor" THEN "Outdoor"
  ELSE IF c = "cycling" THEN "Cycling"
  ELSE IF c = "pet" THEN "Pet supplies"
  ELSE "General"

\* kpis: elapsedSeconds is kept in thousandths of a second
kpis(t, elapsed) ==
  [elapsedSeconds |-> Max0(elapsed),
   offersCount |-> Len(visibleOffers(t, elapsed)),
   stageLabel |-> IF t.status = "COMPLETED" THEN "Completed"
                  ELSE IF t.status = "AGREED" THEN "Ready to confirm"
                  ELSE IF t.status = "OFFER_SELECTED" THEN "Conversation opened"
                  ELSE "Collecting offers",
   confirmed |-> t.confirmed,
   category |-> categoryLabel(t.category)]

\* toUI: the status, the selection and the offers that have arrived
toUI(t, elapsed) ==
  [threadId |-> t.threadId, status |-> t.status, requestText |-> t.requestText,
   selectedOfferId |-> t.selectedOfferId, offers |-> visibleOffers(t, elapsed),
   events |-> t.events, kpis |-> kpis(t, elapsed)]

\* --- the token: base64url(JSON.stringify(thread)) "." hmac(payload).  Every
\* value of a thread is a string, a finite number, a boolean, null, an array
\* or a plain object, which stringify and parse reproduce; `parts` is the
\* length of token.split(".").  The header is absent when parts = 0.
secret == "dev_secret_change_me_please_1234567890"

hmacWith(key, input) == [key |-> key, input |-> input]
hmac(input) == hmacWith(secret, input)

timingSafeEqual(a, b) == a = b

stringify(obj) == [json |-> obj]
parse(payload) == payload.json

encodeToken(obj) ==
  LET payload == stringify(obj)
  IN [parts |-> 2, payload |-> payload, sig |-> hmac(payload)]

NoToken == [parts |-> 0, payload |-> stringify(NoSessionThread),
            sig |-> hmacWith("", stringify(NoSessionThread))]

Thrown == [thrown |-> TRUE, value |-> NoSessionThread]

decodeTokenUnverified(token) ==
  IF token.parts # 2 THEN Thrown
  ELSE [thrown |-> FALSE, value |-> parse(token.payload)]
decodeToken(token) ==
  IF token.parts # 2 THEN Thrown
  ELSE IF ~timingSafeEqual(token.sig, hmac(token.payload)) THEN Thrown
  ELSE [thrown |-> FALSE, value |-> parse(token.payload)]

\* const events = [...t.events]: the operations push to a copy, and the
\* array of the thread they were given keeps the elements it had
eventsShared(t, returned) == returned.events
eventsOfInput(t, returned) == t.events

\* --- the handlers: what NextResponse.json(...) carries
NoUI == toUI(NoSessionThread, 0)
Refused(status) ==
  [status |-> status, issued |-> FALSE, token |-> NoToken, thread |-> NoSessionThread,
   ui |-> NoUI]
Answer(t, token, elapsed) ==
  [status |-> 200, issued |-> TRUE, token |-> token, thread |-> t,
   ui |-> toUI(t, elapsed)]

\* GET /api/demo/thread/[id]
getThread(token, elapsed) ==
  IF token.parts = 0 THEN Refused(400)
  ELSE IF decodeToken(token).thrown THEN Refused(401)
  ELSE Answer(decodeToken(token).value, token, elapsed)

\* POST /api/demo/thread/[id]/select-offer
selectOffer(token, offerId, elapsed) ==
  IF token.parts = 0 THEN Refused(400)
  ELSE IF offerId = "" THEN Refused(400)
  ELSE IF decodeToken(token).thrown THEN Refused(401)
  ELSE LET updated == selectOfferInThread(decodeToken(token).value, offerId)
       IN Answer(updated, encodeToken(updated), elapsed)

\* POST /api/demo/thread/[id]/confirm
confirm(token, elapsed) ==
  IF token.parts = 0 THEN Refused(400)
  ELSE IF decodeToken(token).thrown THEN Refused(401)
  ELSE LET updated == confirmThread(decodeToken(token).value)
       IN Answer(updated, encodeToken(updated), elapsed)

\* ------------------------------------------- the clarification dialogue
\* [...].slice(-12) of the page's miniTurns
HistoryWindow == 12
MAX_QUESTIONS == 2

\* a turn of the history; its content is read by the language model only
Turn(role, content) == [role |-> role, content |-> content]

sliceLast(turns, n) ==
  IF Len(turns) <= n THEN turns ELSE SubSeq(turns, Len(turns) - n + 1, Len(turns))

computeQuestionCount(history) ==
  Cardinality({i \in 1..Len(history) : history[i].role = "assistant"})

normaliseCategory(x) ==
  LET v == IF x = Null THEN "" ELSE Trim(ToUpperCase(x))
  IN IF v \in {"SNEAKERS", "OUTDOORS", "CYCLING", "PET_SUPPLIES"} THEN v
     ELSE "NOT_SPECIFIED"

defaultQuestionForCategory(cat) ==
  IF cat = "SNEAKERS" THEN "What size should I use?"
  ELSE IF cat = "CYCLING" THEN "What size should I use?"
  ELSE IF cat = "OUTDOORS" THEN "Any preference on size, weight, or packability?"
  ELSE IF cat = "PET_SUPPLIES" THEN "What pet is this for, and roughly what size?"
  ELSE "This demo is limited to SNEAKERS, OUTDOORS, CYCLING, and PET SUPPLIES. Which category should I use?"

questionFromMissingField(field, cat) ==
  LET f == ToLowerCase(field)
  IN IF f = "" THEN defaultQuestionForCategory(cat)
     ELSE IF f = "size" THEN "What size should I use?"
     ELSE IF f = "colour" \/ f = "color" THEN "Any colour preference?"
     ELSE IF f = "brand" THEN "Any brand preference?"
     ELSE IF f = "style" THEN "What style should I target?"
     ELSE IF f = "pet_type" THEN "What pet is this for?"
     ELSE IF f = "terrain" THEN "What terrain is this for?"
     ELSE IF f = "weather" THEN "Any weather conditions to account for?"
     ELSE IF f = "capacity" THEN "What capacity do you need?"
     ELSE IF f = "weight" THEN "Any preference on weight or packability?"
     ELSE defaultQuestionForCategory(cat)

\* what extractJsonObject made of the model's reply: its category, its
\* missing_fields as uniqCleanTerms(..., 2) leaves them, its next_question
Parsed(category, missing_fields, next_question) ==
  [category |-> category, missing_fields |-> missing_fields,
   next_question |-> next_question]

ClarifyError(status) ==
  [status |-> status, next_action |-> Null, next_question |-> Null,
   question_count_server |-> 0, category |-> Null]

\* POST of the clarify endpoint; `upstream` is what became of the request
\* to the language model: "no_key", "failed" (not ok, or fetch threw), "ok"
clarify(userText, history, upstream, parsed) ==
  IF Trim(userText) = "" THEN ClarifyError(400)
  ELSE IF upstream = "no_key" THEN ClarifyError(500)
  ELSE IF upstream = "failed" THEN ClarifyError(502)
  ELSE
    LET questionCount == computeQuestionCount(history)
        category == normaliseCategory(parsed.category)
        modelQuestion == IF parsed.next_question # Null /\ Trim(parsed.next_question) # ""
                         THEN Slice(Trim(parsed.next_question), 220) ELSE Null
        ask == IF category = "NOT_SPECIFIED" THEN defaultQuestionForCategory(category)
               ELSE IF Len(parsed.missing_fields) > 0
               THEN questionFromMissingField(parsed.missing_fields[1], category)
               ELSE IF modelQuestion # Null THEN modelQuestion
               ELSE defaultQuestionForCategory(category)
    IN [status |-> 200,
        next_action |-> IF questionCount >= MAX_QUESTIONS THEN "BROADCAST_NOW"
                        ELSE IF questionCount = 0 THEN "ASK_ONE_QUESTION"
                        ELSE "BROADCAST_NOW",
        next_question |-> IF questionCount >= MAX_QUESTIONS THEN Null
                          ELSE IF questionCount = 0 THEN ask
                          ELSE Null,
        question_count_server |-> questionCount,
        category |-> category]

NoClarify == ClarifyError(0)

\* the page: miniTurns, the questions put to the user since the page was
\* reset or last broadcast, and the last askAgent: the history it sent,
\* the answer, and how it ended
DialogueIdle ==
  [miniTurns |-> <<>>, asked |-> 0,
   last |-> [history |-> <<>>, response |-> NoClarify, ended |-> "none"]]

catLabel(c) ==
  IF c = "SNEAKERS" THEN "SNEAKERS"
  ELSE IF c = "OUTDOORS" THEN "OUTDOORS"
  ELSE IF c = "CYCLING" THEN "CYCLING"
  ELSE IF c = "PET_SUPPLIES" THEN "PET SUPPLIES"
  ELSE "NOT SPECIFIED"

\* askAgent of the page; `net` is "rejects" when the fetch of the endpoint
\* rejects, which leaves askAgent by its finally
askAgent(d, draft, llmOn, net, upstream, parsed) ==
  LET txt == Trim(draft)
      historyForApi == sliceLast(Append(d.miniTurns, Turn("user", txt)), HistoryWindow)
      res == clarify(txt, historyForApi, upstream, parsed)
      said(content) == sliceLast(Append(historyForApi, Turn("assistant", content)),
                                 HistoryWindow)
  IN IF txt = "" THEN d
     ELSE IF ~llmOn
     THEN [d EXCEPT !.asked = 0,
                    !.last = [history |-> <<>>, response |-> NoClarify,
                              ended |-> "broadcast"]]
     ELSE IF net = "rejects"
     THEN [d EXCEPT !.miniTurns = historyForApi,
                    !.last = [history |-> historyForApi, response |-> NoClarify,
                              ended |-> "thrown"]]
     ELSE IF res.status # 200
     THEN [d EXCEPT !.miniTurns =
                      said("LLM assist is not available right now. Switch LLM assist off to broadcast directly."),
                    !.last = [history |-> historyForApi, response |-> res,
                              ended |-> "unavailable"]]
     ELSE IF res.category = Null \/ res.category = ""
     THEN [d EXCEPT !.miniTurns =
                      said("LLM returned an invalid plan. Switch LLM assist off to broadcast directly."),
                    !.last = [history |-> historyForApi, response |-> res,
                              ended |-> "invalid"]]
     ELSE IF res.next_action = "ASK_ONE_QUESTION" /\ res.next_question # Null
             /\ res.next_question # ""
     THEN [miniTurns |-> said("Category: " \o catLabel(res.category) \o ". "
                                \o res.next_question),
           asked |-> d.asked + 1,
           last |-> [history |-> historyForApi, response |-> res, ended |-> "asked"]]
     ELSE [miniTurns |-> said("Category: " \o catLabel(res.category)
                                \o ". Broadcasting now."),
           asked |-> 0,
           last |-> [history |-> historyForApi, response |-> res,
                     ended |-> "broadcast"]]

\* ------------------------------------------------------------------- state
VARIABLES
  body,        \* the JSON body of the POST
  registry,    \* the stores of data/mcp_stores.json
  hourKey,     \* the UTC hour of the request
  pc,          \* position of the handler
  picked,      \* `picked` (two-pass) / `candidates` (sequential)
  settled,     \* per picked store: the state of its mcpSearchProducts promise
  contacted,   \* indices of the picked stores a request was sent to
  pass,        \* the pass of the two-pass loop
  cursor,      \* index of the store the loop is at
  liveOffers,  \* `liveOffers`
  acceptedIn,  \* per live offer, the pass and the pool index it was accepted at
  debug,       \* `debug`
  thread,      \* `thread`
  response,    \* what the handler returned
  caught,      \* the catch block of the handler was entered
  \* one mcpSearchProducts call, exchange by exchange
  cpc,         \* position of the call
  exchanges,   \* the exchanges so far: method, attempt and what the network did
  listed,      \* what mcpToolsList returned to mcpSearchProducts
  attempt,     \* index of the argument shape being tried
  result,      \* what mcpSearchProducts returned
  post,        \* one mcpPost, step by step: its timer, its awaits, its exit
  applied,     \* one application of a pure function: arguments and value
  session,     \* the token the client holds and the last operation on it
  dialogue     \* the page's clarification turns and the last askAgent

exchangeVars == <<cpc, exchanges, listed, attempt, result>>

clientVars == <<exchangeVars, post, applied, session, dialogue>>

vars == <<body, registry, hourKey, pc, picked, settled, contacted, pass, cursor,
          liveOffers, acceptedIn, debug, thread, response, caught, clientVars>>

NoResult == [ok |-> FALSE, products |-> <<>>, toolUsed |-> Null, error |-> Null]
Pending == [status |-> "pending", value |-> NoResult]
Rejected == [status |-> "rejected", value |-> NoResult]
Fulfilled(res) ==
  [status |-> "fulfilled",
   value |-> [ok |-> res.ok, products |-> res.products, toolUsed |-> res.toolUsed,
              error |-> res.error]]

NoDebug ==
  [on |-> FALSE, storeResults |-> <<>>, contacted |-> 0, collectedOffers |-> 0,
   fatal |-> <<>>, passUsed |-> 0]
NewDebug(on) == [NoDebug EXCEPT !.on = on]

NoResponse == [status |-> 0, offers |-> <<>>, token |-> NoThread, debug |-> NoDebug]

\* catch (e) { if (debug) debug.fatal = String(e?.message ?? e) }
Caught(d, message) == IF d.on THEN [d EXCEPT !.fatal = Append(@, message)] ELSE d

StoreResult(storeId, ok, toolUsed, error, productCount, p, strict) ==
  [storeId |-> storeId, ok |-> ok, toolUsed |-> toolUsed, error |-> error,
   productCount |-> productCount, pass |-> p, strict |-> strict]

NoTools == [returned |-> FALSE, thrown |-> FALSE, tools |-> <<>>]
NoCall == SearchResult(FALSE, FALSE, <<>>, Null, Null, 0)

\* no mcpPost is being followed: no timer, no fetch
PostIdle ==
  [pc |-> "idle", net |-> FaultNet, timeoutMs |-> 0, elapsed |-> 0, timer |-> "unset",
   abortedIn |-> "none", outcome |-> "none", lateFire |-> FALSE]

\* no pure function has been applied
NotApplied == [fn |-> "none", args |-> <<>>, out |-> <<>>]

\* no mcpSearchProducts call is being followed exchange by exchange
\* no operation on a session
NoOperation ==
  [op |-> "none", presented |-> NoToken, arg |-> "", elapsed |-> 0, held |-> NoToken,
   input |-> NoSessionThread, response |-> Refused(0)]
SessionIdle == [pc |-> "idle", token |-> NoToken, steps |-> 0, last |-> NoOperation]

ClientIdle ==
  /\ cpc = "idle" /\ exchanges = <<>> /\ listed = NoTools /\ attempt = 0
  /\ result = NoCall
  /\ post = PostIdle /\ applied = NotApplied
  /\ session = SessionIdle
  /\ dialogue = DialogueIdle

\* `liveOffers.length >= 3`: the break at the top of each loop iteration and
\* the test after the inner loop of the two-pass handler
enoughOffByOne(offers) == Len(offers) > TargetCount
enough(offers) == Len(offers) >= TargetCount

Init ==
  /\ body \in Bodies
  /\ registry \in {RegistryOf(n) : n \in 0..MaxPool}
  /\ hourKey \in HourKeys
  /\ pc = "start"
  /\ picked = <<>>
  /\ settled = <<>>
  /\ contacted = {}
  /\ pass = 0
  /\ cursor = 0
  /\ liveOffers = <<>>
  /\ acceptedIn = <<>>
  /\ debug = NoDebug
  /\ thread = NoThread
  /\ response = NoResponse
  /\ caught = FALSE
  /\ ClientIdle

BadRequest ==
  /\ response' = [NoResponse EXCEPT !.status = 400]
  /\ pc' = "done"
  /\ UNCHANGED <<clientVars, caught, body, registry, hourKey, picked, settled, contacted, pass, cursor,
                 liveOffers, acceptedIn, debug, thread>>

\* ------------------------------------------------- the two-pass handler
\* POST up to and including the start of every mcpSearchProducts call
\* (picked.map runs each call to its first await before allSettled waits).
TwoPassStart ==
  /\ pc = "start" /\ body.handler = "twopass"
  /\ LET plan == body.intent_plan
         requestText == Trim(IF plan.present /\ plan.broadcast_intent # ""
                             THEN plan.broadcast_intent ELSE Trim(body.requestText))
     IN IF requestText = "" THEN BadRequest
        ELSE \E loadFails \in BOOLEAN :
          /\ thread' = makeInitialThread(requestText)
          /\ IF loadFails
             THEN /\ debug' = Caught(NewDebug(body.debug), "ENOENT")
                  /\ caught' = TRUE
                  /\ pc' = "respond"
                  /\ UNCHANGED <<picked, settled, contacted>>
             ELSE LET storeCategory ==
                        normaliseStoreCategory(IF plan.present THEN plan.category ELSE Null,
                                               requestText)
                      p == pickStoresForCategory(registry, storeCategory, TwoPassPoolMax,
                                                 hourKey)
                  IN /\ picked' = p
                     /\ settled' = [i \in 1..Len(p) |-> Pending]
                     /\ contacted' = 1..Len(p)
                     /\ debug' = NewDebug(body.debug)
                     /\ caught' = FALSE
                     /\ pc' = "await"
          /\ UNCHANGED <<clientVars, body, registry, hourKey, pass, cursor, liveOffers, acceptedIn,
                         response>>

\* One mcpSearchProducts call runs to its end: the promise is fulfilled with
\* the returned record, or rejected when mcpPost throws.
Settle(i) ==
  /\ pc = "await"
  /\ i \in 1..Len(picked) /\ settled[i].status = "pending"
  /\ \E res \in SearchOutcomes[picked[i]] :
       settled' = [settled EXCEPT ![i] = IF res.thrown THEN Rejected ELSE Fulfilled(res)]
  /\ UNCHANGED <<clientVars, caught, body, registry, hourKey, pc, picked, contacted, pass, cursor, liveOffers,
                 acceptedIn, debug, thread, response>>

\* Promise.allSettled(promises) resolves once no promise is pending, with
\* the results in the order of `picked`
anySettled(promises) ==
  Len(promises) = 0 \/ \E i \in 1..Len(promises) : promises[i].status # "pending"
allSettled(promises) == \A i \in 1..Len(promises) : promises[i].status # "pending"

\* await Promise.allSettled(...) returns; liveOffers = []; pass 1 begins
AllSettled ==
  /\ pc = "await"
  /\ allSettled(settled)
  /\ pc' = "inner" /\ pass' = 1 /\ cursor' = 1
  /\ liveOffers' = <<>> /\ acceptedIn' = <<>>
  /\ UNCHANGED <<clientVars, caught, body, registry, hourKey, picked, settled, contacted, debug, thread,
                 response>>

planForScoring == IF body.intent_plan.present THEN body.intent_plan ELSE NoPlan

\* pickBestProduct(r.products, planForScoring, strict) || r.products[0]
bestOrFirst(products, plan, strict) ==
  LET b == pickBestProduct(products, plan, strict)
  IN IF b = 0 THEN products[1] ELSE products[b]

twoPassTrust(store) ==
  IF Includes(ToLowerCase(store.id), "allbirds") THEN "Verified" ELSE "Reliable"

\* One iteration of `for (const item of results)` that does not break.
PassIterate ==
  /\ pc = "inner" /\ cursor <= Len(picked) /\ ~enough(liveOffers)
  /\ LET item == settled[cursor]
         store == picked[cursor]
         r == item.value
         strict == (pass = 1)
     IN IF item.status # "fulfilled"
        THEN /\ debug' = IF debug.on
                         THEN [debug EXCEPT !.storeResults =
                                 Append(@, StoreResult(Null, FALSE, Null, "Promise rejected",
                                                       0, pass, strict))]
                         ELSE debug
             /\ UNCHANGED <<liveOffers, acceptedIn>>
        ELSE /\ debug' = IF debug.on
                         THEN [debug EXCEPT !.storeResults =
                                 Append(@, StoreResult(store.id, r.ok, r.toolUsed, r.error,
                                                       Len(r.products), pass, strict))]
                         ELSE debug
             /\ IF ~r.ok \/ Len(r.products) = 0
                THEN UNCHANGED <<liveOffers, acceptedIn>>
                ELSE LET best == bestOrFirst(r.products, planForScoring, strict)
                         delay == TwoPassBaseDelay + (cursor - 1) * TwoPassStepDelay
                     IN /\ liveOffers' =
                             Append(liveOffers,
                                    offerFromMcpProduct(store.id, best.title, best.priceText,
                                                        best.imageUrl, best.productUrl, delay,
                                                        twoPassTrust(store),
                                                        Len(liveOffers) + 1))
                        /\ acceptedIn' = Append(acceptedIn, [pass |-> pass, idx |-> cursor])
  /\ cursor' = cursor + 1
  /\ UNCHANGED <<clientVars, caught, body, registry, hourKey, pc, picked, settled, contacted, pass, thread,
                 response>>

\* The inner loop ends (exhausted, or break at 3 offers); then the test after
\* it: passUsed and break, or the next pass, or the end of the outer loop.
PassEnd ==
  /\ pc = "inner" /\ (cursor > Len(picked) \/ enough(liveOffers))
  /\ IF enough(liveOffers)
     THEN /\ debug' = IF debug.on THEN [debug EXCEPT !.passUsed = pass] ELSE debug
          /\ pc' = "commit"
          /\ UNCHANGED <<pass, cursor>>
     ELSE IF pass = 1
          THEN /\ pass' = 2 /\ cursor' = 1
               /\ UNCHANGED <<pc, debug>>
          ELSE /\ pc' = "commit"
               /\ UNCHANGED <<pass, cursor, debug>>
  /\ UNCHANGED <<clientVars, caught, body, registry, hourKey, picked, settled, contacted, liveOffers,
                 acceptedIn, thread, response>>

\* ------------------------------------------------ the sequential handler
SeqStart ==
  /\ pc = "start" /\ body.handler = "sequential"
  /\ IF Trim(body.requestText) = "" THEN BadRequest
     ELSE \E loadFails \in BOOLEAN :
       /\ thread' = makeInitialThread(body.requestText)
       /\ IF loadFails
          THEN /\ debug' = Caught(NewDebug(body.debug), "ENOENT")
               /\ caught' = TRUE
               /\ pc' = "respond"
               /\ UNCHANGED <<picked, settled, cursor>>
          ELSE \E candidates \in pickCandidateStores(registry,
                                                     classifyIntent(body.requestText),
                                                     SeqPoolMax) :
               /\ picked' = candidates
               /\ settled' = [i \in 1..Len(candidates) |-> Pending]
               /\ debug' = NewDebug(body.debug)
               /\ caught' = FALSE
               /\ cursor' = 1
               /\ pc' = IF Len(candidates) > 0 THEN "seqloop" ELSE "respond"
       /\ UNCHANGED <<clientVars, body, registry, hourKey, contacted, pass, liveOffers, acceptedIn,
                      response>>

seqTrust(store) == IF store.weight >= 120 THEN "Verified" ELSE "Reliable"

\* One iteration of `for (const store of candidates)` that does not break:
\* await mcpSearchProducts, then the rest of the body; an exception of the
\* call leaves the loop for the catch of the handler.
SeqIterate ==
  /\ pc = "seqloop" /\ cursor <= Len(picked) /\ ~enough(liveOffers)
  /\ contacted' = contacted \cup {cursor}
  /\ \E res \in SearchOutcomes[picked[cursor]] :
       LET store == picked[cursor]
           keyWord == extractKeyItemWord(body.requestText)
           d1 == IF debug.on
                 THEN [debug EXCEPT !.contacted = @ + 1,
                                    !.storeResults =
                                      Append(@, StoreResult(store.id, res.ok, res.toolUsed,
                                                            res.error, Len(res.products),
                                                            0, FALSE))]
                 ELSE debug
       IN IF res.thrown
          THEN /\ settled' = [settled EXCEPT ![cursor] = Rejected]
               /\ debug' = Caught(debug, "fetch failed")
               /\ caught' = TRUE
               /\ pc' = "respond"
               /\ UNCHANGED <<cursor, liveOffers, acceptedIn>>
          ELSE /\ settled' = [settled EXCEPT ![cursor] = Fulfilled(res)]
               /\ caught' = caught
               /\ cursor' = cursor + 1
               /\ pc' = pc
               /\ IF ~res.ok \/ Len(res.products) = 0
                  THEN /\ debug' = d1
                       /\ UNCHANGED <<liveOffers, acceptedIn>>
                  ELSE LET matched == matchedProduct(res.products, keyWord)
                           delay == SeqBaseDelay + Len(liveOffers) * SeqStepDelay
                       IN IF ~isUsableLiveProduct(matched)
                          THEN /\ debug' = d1
                               /\ UNCHANGED <<liveOffers, acceptedIn>>
                          ELSE /\ liveOffers' =
                                    Append(liveOffers,
                                           offerFromMcpProduct(store.id, matched.title,
                                                               matched.priceText,
                                                               matched.imageUrl,
                                                               matched.productUrl, delay,
                                                               seqTrust(store),
                                                               Len(liveOffers) + 1))
                               /\ acceptedIn' = Append(acceptedIn,
                                                       [pass |-> 0, idx |-> cursor])
                               /\ debug' = IF d1.on
                                           THEN [d1 EXCEPT !.collectedOffers =
                                                             Len(liveOffers) + 1]
                                           ELSE d1
  /\ UNCHANGED <<clientVars, body, registry, hourKey, picked, pass, thread, response>>

\* The loop ends: candidates exhausted, or break at 3 offers.
SeqLoopEnd ==
  /\ pc = "seqloop" /\ (cursor > Len(picked) \/ enough(liveOffers))
  /\ pc' = "commit"
  /\ UNCHANGED <<clientVars, caught, body, registry, hourKey, picked, settled, contacted, pass, cursor,
                 liveOffers, acceptedIn, debug, thread, response>>

\* ------------------------------------------------------------ both handlers
\* if (liveOffers.length >= 1) { thread.offers = liveOffers; events.push(...) }
Commit ==
  /\ pc = "commit"
  /\ thread' = IF Len(liveOffers) >= 1
               THEN [thread EXCEPT !.offers = liveOffers,
                                   !.events = Append(@, Event("Your assistant",
                                     IF body.handler = "sequential"
                                     THEN "I contacted participating sellers."
                                     ELSE "Tip: for the demo, avoid adding price limits."))]
               ELSE thread
  /\ pc' = "respond"
  /\ UNCHANGED <<clientVars, caught, body, registry, hourKey, picked, settled, contacted, pass, cursor,
                 liveOffers, acceptedIn, debug, response>>

\* token = encodeToken(thread); ui = toUI(thread, new Date()); 200
Respond ==
  /\ pc = "respond"
  /\ \E elapsed \in Elapsed :
       response' = [status |-> 200, offers |-> visibleOffers(thread, elapsed),
                    token |-> thread, debug |-> debug]
  /\ pc' = "done"
  /\ UNCHANGED <<clientVars, caught, body, registry, hourKey, picked, settled, contacted, pass, cursor,
                 liveOffers, acceptedIn, debug, thread>>

Next ==
  \/ TwoPassStart
  \/ \E i \in 1..MaxPool : Settle(i)
  \/ AllSettled
  \/ PassIterate
  \/ PassEnd
  \/ SeqStart
  \/ SeqIterate
  \/ SeqLoopEnd
  \/ Commit
  \/ Respond

Spec == Init /\ [][Next]_vars

\* ------------------------------------- one mcpSearchProducts call, stepwise
ListNets == {b.list : b \in Behaviours}
CallNets == {b.calls[k] : b \in Behaviours, k \in 1..NumAttempts}

ClientStore == CyclingStore(1)

\* one mcpPost: the method, the attempt and its argument shape (0 and Null
\* for tools/list), and what the network did
Exchange(method, k, net) ==
  [method |-> method, attempt |-> k,
   shape |-> IF k = 0 THEN Null ELSE AttemptShapes[k], net |-> net]

\* no thread-creation request is being handled
OrchIdle ==
  /\ body = Body("none", "", NoPlan, FALSE)
  /\ registry = <<>> /\ hourKey = 0 /\ pc = "idle"
  /\ picked = <<>> /\ settled = <<>> /\ contacted = {}
  /\ pass = 0 /\ cursor = 0 /\ liveOffers = <<>> /\ acceptedIn = <<>>
  /\ debug = NoDebug /\ thread = NoThread /\ response = NoResponse /\ caught = FALSE

orchVars == <<body, registry, hourKey, pc, picked, settled, contacted, pass, cursor,
              liveOffers, acceptedIn, debug, thread, response, caught>>

InitClient ==
  /\ OrchIdle
  /\ cpc = "start" /\ exchanges = <<>> /\ listed = NoTools /\ attempt = 0
  /\ result = NoCall
  /\ post = PostIdle /\ applied = NotApplied
  /\ session = SessionIdle
  /\ dialogue = DialogueIdle

\* mcpSearchProducts from its entry to the first tools/call (or its return):
\* `await mcpToolsList(...)` is one exchange, then the two early returns.
ListExchange ==
  /\ cpc = "start"
  /\ \E net \in ListNets :
       LET tl == mcpToolsList(net)
       IN /\ exchanges' = Append(exchanges, Exchange("tools/list", 0, net))
          /\ listed' = [returned |-> ~tl.thrown, thrown |-> tl.thrown, tools |-> tl.tools]
          /\ IF tl.thrown
             THEN /\ cpc' = "threw"
                  /\ result' = SearchResult(TRUE, FALSE, <<>>, Null, Null, 0)
                  /\ attempt' = attempt
             ELSE IF Len(tl.tools) = 0
             THEN /\ cpc' = "returned"
                  /\ result' = SearchResult(FALSE, FALSE, <<>>, Null,
                                            "No tools/list response", 0)
                  /\ attempt' = attempt
             ELSE IF pickSearchTool(tl.tools) = Null
             THEN /\ cpc' = "returned"
                  /\ result' = SearchResult(FALSE, FALSE, <<>>, Null,
                                            "No search tool found", 0)
                  /\ attempt' = attempt
             ELSE /\ cpc' = "call"
                  /\ attempt' = 1
                  /\ result' = result
  /\ UNCHANGED <<orchVars, session, dialogue, post, applied>>

\* One iteration of `for (const args of attempts)`: one tools/call exchange;
\* after the last attempt the loop ends and "Search returned no products".
CallExchange ==
  /\ cpc = "call" /\ attempt <= NumAttempts
  /\ \E net \in CallNets :
       LET r == mcpPost(net)
           toolName == pickSearchTool(listed.tools)
           products == normaliseProducts(extractPayload(r.json), storeBaseUrl(ClientStore))
           usable == ~r.thrown /\ attemptUsable(r, products)
       IN /\ exchanges' = Append(exchanges, Exchange("tools/call", attempt, net))
          /\ IF r.thrown
             THEN /\ cpc' = "threw"
                  /\ result' = SearchResult(TRUE, FALSE, <<>>, toolName, Null, attempt)
                  /\ attempt' = attempt
             ELSE IF usable
             THEN /\ cpc' = "returned"
                  /\ result' = SearchResult(FALSE, TRUE, products, toolName, Null, attempt)
                  /\ attempt' = attempt
             ELSE IF attempt = NumAttempts
             THEN /\ cpc' = "returned"
                  /\ result' = SearchResult(FALSE, FALSE, <<>>, toolName,
                                            "Search returned no products", NumAttempts)
                  /\ attempt' = attempt
             ELSE /\ cpc' = "call"
                  /\ attempt' = attempt + 1
                  /\ result' = result
  /\ UNCHANGED <<orchVars, session, dialogue, listed, post, applied>>

NextClient == ListExchange \/ CallExchange

SpecClient == InitClient /\ [][NextClient]_vars

\* ------------------------------------------------ one mcpPost, stepwise
\* The exchanges mcpPost is called for, and the timeouts it is called with:
\* 6000 is the default of mcpToolsList, 12000 what mcpSearchProducts passes.
PostNets == ListNets \cup CallNets
TimeoutsMs == {ToolsListTimeoutMs, SearchTimeoutMs}

InFlight == post.pc \in {"fetching", "reading"}

\* setTimeout(() => ctrl.abort(), timeoutMs) is due
TimerDue == post.timer = "armed" /\ post.elapsed * 1000 >= post.timeoutMs

\* finally { clearTimeout(t) }: on every way out of the try block
clearTimeoutOnReturnOnly(timer, outcome) ==
  IF timer = "armed" /\ outcome = "returned" THEN "cleared" ELSE timer
clearTimeout(timer, outcome) == IF timer = "armed" THEN "cleared" ELSE timer

\* mcpPost leaves through finally with a value or an exception
PostExit(outcome) ==
  [post EXCEPT !.pc = "done", !.outcome = outcome,
               !.timer = clearTimeout(post.timer, outcome)]

InitPost == OrchIdle /\ ClientIdle

\* new AbortController, setTimeout, fetch(...) up to its await
PostStart ==
  /\ post.pc = "idle"
  /\ \E net \in PostNets, timeoutMs \in TimeoutsMs :
       post' = [PostIdle EXCEPT !.pc = "fetching", !.net = net, !.timeoutMs = timeoutMs,
                                !.timer = "armed"]
  /\ UNCHANGED <<orchVars, session, dialogue, exchangeVars, applied>>

\* A second passes.  The handler is suspended in an await or has returned, so
\* a timer that is due runs before more time passes.
Tick ==
  /\ post.pc # "idle" /\ post.elapsed < MaxSeconds /\ ~TimerDue
  /\ post' = [post EXCEPT !.elapsed = @ + 1]
  /\ UNCHANGED <<orchVars, session, dialogue, exchangeVars, applied>>

\* `await fetch(...)` settles: the promise rejects on a transport fault, else
\* the response head is there and res.text() is awaited.
FetchSettles ==
  /\ post.pc = "fetching" /\ post.abortedIn = "none"
  /\ post' = IF post.net.fault THEN PostExit("threw") ELSE [post EXCEPT !.pc = "reading"]
  /\ UNCHANGED <<orchVars, session, dialogue, exchangeVars, applied>>

\* `await res.text()` settles, JSON.parse in its own try/catch, return
BodyRead ==
  /\ post.pc = "reading" /\ post.abortedIn = "none"
  /\ post' = PostExit("returned")
  /\ UNCHANGED <<orchVars, session, dialogue, exchangeVars, applied>>

\* The timer fires: ctrl.abort().  The signal covers fetch and the reading of
\* the body; after the exit of mcpPost the abort has nothing to act on.
TimerFires ==
  /\ TimerDue
  /\ post' = [post EXCEPT !.timer = "fired",
                          !.abortedIn = IF InFlight THEN post.pc ELSE "none",
                          !.lateFire = ~InFlight]
  /\ UNCHANGED <<orchVars, session, dialogue, exchangeVars, applied>>

\* the pending await rejects with the AbortError
AbortRejects ==
  /\ InFlight /\ post.abortedIn # "none"
  /\ post' = PostExit("threw")
  /\ UNCHANGED <<orchVars, session, dialogue, exchangeVars, applied>>

NextPost == PostStart \/ Tick \/ FetchSettles \/ BodyRead \/ TimerFires \/ AbortRejects

SpecPost == InitPost /\ [][NextPost]_vars

\* -------------------------------------------- the pure functions, applied
ToolNames ==
  {"get_cart", "search_shop_catalog", "Search_Products", "find_search", "SHOP-search",
   "lookup"}

\* the sequences over S of length at most n
SeqsUpTo(S, n) == UNION {[1..m -> S] : m \in 0..n}

ScorerTitles ==
  {"Commuter Helmet, Matte Black", "Matte Black Helmet", "Sun Hat",
   "Cycling Gloves, Black", "Helmet Hat", ""}

Product(title) ==
  [title |-> title, priceText |-> "", imageUrl |-> "", productUrl |-> "https://s1.example"]

PreferredOnlyPlan ==
  IntentPlan(TRUE, "CYCLING", <<>>, <<"Black">>, <<"hat">>, "black kit", "Black kit")
TwoRequiredPlan ==
  IntentPlan(TRUE, "CYCLING", <<"helmet", "matte">>, <<"black">>, <<"hat", "sun">>,
             "matte helmet", "Matte helmet")
ScorerPlans == {NoPlan, HelmetPlan, PreferredOnlyPlan, TwoRequiredPlan}

RelativeRaw ==
  RawProduct("Cycling Cap", Null, NoAmount, Null, Null, Null, "products/cap", Null)
TitleOnlyRaw == RawProduct(" Bell ", "Bike Bell", NoAmount, Null, Null, Null, Null, Null)
\* a product with a price range and a price string of the merchant
BothPricesRaw ==
  RawProduct("Trail Shoe", Null, Amount("number", 8900), "GBP", " from £79 ", Null,
             "https://shop.example/products/trail-shoe", Null)
Raws ==
  {HelmetRaw, SunHatRaw, GlovesRaw, UntitledRaw, RelativeRaw, TitleOnlyRaw, BothPricesRaw}

Containers == {"products", "items", "results", "data.products", "data", "payload"}

\* the payload that holds the candidates `arr` in the given container
PayloadWith(container, arr) ==
  IF container = "products" THEN Payload(Arr(arr), Absent, Absent)
  ELSE IF container = "items" THEN Payload(Absent, Arr(arr), Absent)
  ELSE IF container = "results" THEN Payload(Absent, Absent, Arr(arr))
  ELSE IF container = "data.products" THEN DataPayload(Arr(arr), Absent)
  ELSE IF container = "data" THEN DataPayload(Absent, Arr(arr))
  ELSE BarePayload(arr)

\* a payload object with two containers: the candidates `arr` in one, and an
\* empty array in the other (`shadow`)
PayloadWithEmpty(container, arr, shadow) ==
  LET p == PayloadWith(container, arr)
  IN IF shadow = "products" THEN [p EXCEPT !.products = Arr(<<>>)]
     ELSE IF shadow = "items" THEN [p EXCEPT !.items = Arr(<<>>)]
     ELSE IF shadow = "results" THEN [p EXCEPT !.results = Arr(<<>>)]
     ELSE IF shadow = "data" THEN [p EXCEPT !.data = Arr(<<>>)]
     ELSE p

\* the pairs (container, shadow) a JSON object can hold: two different
\* fields of the payload object, or a field next to data.products
TwoShapes ==
  {cs \in {"products", "items", "results", "data.products", "data"}
          \X {"products", "items", "results", "data"} :
     cs[1] # cs[2] /\ ~(cs[1] = "data.products" /\ cs[2] = "data")}

BaseUrls == {"https://s1.example", "https://s1.example/", "s1.example"}

\* the amounts and currencies formatPrice is applied to
PriceAmounts ==
  {Amount("number", 12900), Amount("number", 12950), Amount("number", 5000),
   Amount("number", 5), Amount("number", 0), Amount("string", 2800),
   Amount("string", 1999), Amount("empty", 0), Amount("nan", 0), NoAmount}
PriceCurrencies == {Null, "", "GBP", "eur", " usd ", "XYZ", "aud", "Gbp"}

Applied(fn, args, out) == [fn |-> fn, args |-> args, out |-> out]

InitFn == OrchIdle /\ ClientIdle

ApplyPickSearchTool ==
  /\ applied = NotApplied
  /\ \E names \in SeqsUpTo(ToolNames, MaxTools) :
       applied' = Applied("pickSearchTool", [names |-> names],
                          [tool |-> pickSearchTool(names)])
  /\ UNCHANGED <<orchVars, session, dialogue, exchangeVars, post>>

ApplyScoreTitle ==
  /\ applied = NotApplied
  /\ \E title \in ScorerTitles, plan \in ScorerPlans, strict \in BOOLEAN :
       applied' = Applied("scoreTitle",
                          [title |-> title, plan |-> plan, strict |-> strict],
                          scoreTitle(title, plan, strict))
  /\ UNCHANGED <<orchVars, session, dialogue, exchangeVars, post>>

ApplyPickBestProduct ==
  /\ applied = NotApplied
  /\ \E titles \in SeqsUpTo(ScorerTitles, MaxProducts), plan \in ScorerPlans,
        strict \in BOOLEAN :
       LET products == [k \in 1..Len(titles) |-> Product(titles[k])]
       IN applied' = Applied("pickBestProduct",
                             [products |-> products, plan |-> plan, strict |-> strict],
                             [index |-> pickBestProduct(products, plan, strict)])
  /\ UNCHANGED <<orchVars, session, dialogue, exchangeVars, post>>

ApplyNormaliseProducts ==
  /\ applied = NotApplied
  /\ \E arr \in SeqsUpTo(Raws, MaxProducts), container \in Containers,
        base \in BaseUrls :
       applied' = Applied("normaliseProducts",
                          [arr |-> arr, container |-> container, shadow |-> "none",
                           storeBaseUrl |-> base],
                          [products |-> normaliseProducts(PayloadWith(container, arr),
                                                          base)])
  /\ UNCHANGED <<orchVars, session, dialogue, exchangeVars, post>>

\* normaliseProducts on a payload object with a second, empty container
ApplyNormaliseTwoShapes ==
  /\ applied = NotApplied
  /\ \E arr \in SeqsUpTo(Raws, MaxProducts), cs \in TwoShapes :
       applied' = Applied("normaliseProducts",
                          [arr |-> arr, container |-> cs[1], shadow |-> cs[2],
                           storeBaseUrl |-> "https://s1.example"],
                          [products |->
                             normaliseProducts(PayloadWithEmpty(cs[1], arr, cs[2]),
                                               "https://s1.example")])
  /\ UNCHANGED <<orchVars, session, dialogue, exchangeVars, post>>

\* a registry with a disabled store, a heavy store with a late id, a store
\* without weight bias and the opted-out id in another case
MixedRegistry ==
  << CyclingStore(1), [CyclingStore(2) EXCEPT !.enabled = FALSE], CyclingStore(3),
     CyclingStore(4),
     Store("s25", "Store 25", "cycling", Null, "https://s25.example/api/mcp", 130),
     Store("AllBirds", "Allbirds", "sneakers", Null, "https://allbirds.example/api/mcp", 150),
     Store("runfast", "Runfast", "sneakers", Null, "https://runfast.example/api/mcp", 0) >>
     \o OtherStores
PickRegistries == {RegistryOf(k) : k \in 0..MaxPool} \cup {MixedRegistry}
PickCategories == {"cycling", "sneakers", "pet"}
PickSizes == {1, TargetCount, TwoPassPoolMax}
PickTimes ==
  {UtcTime(2026, 11, 1, 13, 5), UtcTime(2026, 11, 1, 13, 55), UtcTime(2026, 11, 1, 14, 5),
   UtcTime(2026, 11, 2, 13, 5)}

\* two selections from the same registry, at the times `first` and `second`
ApplyPickStores ==
  /\ applied = NotApplied
  /\ \E stores \in PickRegistries, category \in PickCategories, n \in PickSizes,
        first \in PickTimes, second \in PickTimes :
       LET eligible == Len(filterStores(stores, category, DEMO_EXCLUDE_IDS))
       IN applied' = Applied("pickStoresForCategory",
                             [stores |-> stores, category |-> category, n |-> n,
                              first |-> first, second |-> second],
                             [first |-> pickStoresForCategory(stores, category, n,
                                                              utcHourKey(first)),
                              second |-> pickStoresForCategory(stores, category, n,
                                                               utcHourKey(second)),
                              offsets |-> <<rotationOffset(eligible, utcHourKey(first)),
                                            rotationOffset(eligible, utcHourKey(second))>>])
  /\ UNCHANGED <<orchVars, session, dialogue, exchangeVars, post>>

ApplyFormatPrice ==
  /\ applied = NotApplied
  /\ \E amount \in PriceAmounts, currency \in PriceCurrencies :
       applied' = Applied("formatPrice", [amount |-> amount, currency |-> currency],
                          [text |-> formatPrice(amount, currency)])
  /\ UNCHANGED <<orchVars, session, dialogue, exchangeVars, post>>

NextFn ==
  \/ ApplyPickSearchTool
  \/ ApplyScoreTitle
  \/ ApplyPickBestProduct
  \/ ApplyNormaliseProducts
  \/ ApplyNormaliseTwoShapes
  \/ ApplyFormatPrice
  \/ ApplyPickStores

SpecFn == InitFn /\ [][NextFn]_vars

\* ------------------------------------ the operations on a created thread
\* the thread a creation answers with: the mock offers of the category, or
\* the live offers that replaced them
MockSession ==
  LET t == makeInitialThread("bike helmet")
      names == <<"Peloton Supply", "DrHobbs Store", "Chainline Co">>
  IN SessionThread("t_1f0c", 0, t,
                   [k \in 1..Len(t.offers) |-> SessionOffer(t.offers[k], names[k], "GBP")])
LiveSession ==
  LET t == makeInitialThread("bike helmet")
      live == offerFromMcpProduct("s1", "Commuter Helmet, Matte Black", "£45",
                                  "https://cdn.example/helmet.png",
                                  "https://s1.example/products/helmet", SeqBaseDelay,
                                  "Verified", 1)
  IN SessionThread("t_77aa", 0,
                   [t EXCEPT !.events = Append(@, Event("Your assistant",
                                                        "I contacted participating sellers."))],
                   <<SessionOffer(live, "Store 1", "GBP")>>)
\* the thread of a token issued earlier: an offer selected and a discount
\* agreed, not yet confirmed
AgreedSession ==
  buyerMessage(selectOfferInThread(MockSession, MockSession.offers[1].id), "Any discount?")
SessionThreads == {MockSession, LiveSession, AgreedSession}

\* what a client can send in x-demo-token: the token it holds, no header,
\* a token cut to one part or extended to three, the payload of another
\* thread state under the old signature, or such a payload signed with a
\* key of its own
Forgeries(t) ==
  {[t EXCEPT !.status = "COMPLETED", !.confirmed = TRUE],
   [t EXCEPT !.status = "AGREED"]}
Presentable(token) ==
  {token, NoToken, [token EXCEPT !.parts = 1], [token EXCEPT !.parts = 3]}
    \cup {[token EXCEPT !.payload = stringify(f)] : f \in Forgeries(parse(token.payload))}
    \cup {[token EXCEPT !.payload = stringify(f), !.sig = hmacWith("guess", stringify(f))] :
            f \in Forgeries(parse(token.payload))}

\* the offerId of a select-offer body: an offer of the thread, an unknown
\* id, or none
OfferIdsOf(token) ==
  {parse(token.payload).offers[k].id : k \in 1..Len(parse(token.payload).offers)}
    \cup {"o_unknown", ""}

BuyerTexts == {" Can you do next day delivery? ", "Any discount?", "ok thanks"}

\* now - createdAt at a poll of the thread, in ms
PollTimes == {0, 800, 1500, 3000}

\* the client keeps the token of a 200 answer; `input` is the thread the
\* operation was given, as it is once the operation has returned
Handled(op, presented, arg, elapsed, resp) ==
  [pc |-> "open",
   token |-> IF resp.issued THEN resp.token ELSE session.token,
   steps |-> IF op = "get" THEN session.steps ELSE session.steps + 1,
   last |-> [op |-> op, presented |-> presented, arg |-> arg, elapsed |-> elapsed,
             held |-> session.token,
             input |-> IF resp.issued
                       THEN [parse(presented.payload) EXCEPT
                               !.events = eventsOfInput(parse(presented.payload),
                                                        resp.thread)]
                       ELSE NoSessionThread,
             response |-> resp]]

InitSession == OrchIdle /\ ClientIdle

\* the client holds the token of a thread: the one POST /api/demo/thread
\* answered with, token = encodeToken(thread), or one issued to it earlier
OpenSession ==
  /\ session.pc = "idle"
  /\ \E t \in SessionThreads :
       session' = [SessionIdle EXCEPT !.pc = "open", !.token = encodeToken(t)]
  /\ UNCHANGED <<orchVars, exchangeVars, post, applied, dialogue>>

GetThread ==
  /\ session.pc = "open"
  /\ \E presented \in Presentable(session.token), elapsed \in PollTimes :
       session' = Handled("get", presented, "", elapsed, getThread(presented, elapsed))
  /\ UNCHANGED <<orchVars, exchangeVars, post, applied, dialogue>>

SelectOffer ==
  /\ session.pc = "open" /\ session.steps < MaxOps
  /\ \E presented \in Presentable(session.token), offerId \in OfferIdsOf(session.token) :
       session' = Handled("select-offer", presented, offerId, SeqBaseDelay,
                          selectOffer(presented, offerId, SeqBaseDelay))
  /\ UNCHANGED <<orchVars, exchangeVars, post, applied, dialogue>>

\* buyerMessage applied to the thread of the token the client holds
BuyerMessage ==
  /\ session.pc = "open" /\ session.steps < MaxOps
  /\ \E text \in BuyerTexts :
       LET updated == buyerMessage(decodeToken(session.token).value, text)
       IN session' = Handled("message", session.token, text, SeqBaseDelay,
                             Answer(updated, encodeToken(updated), SeqBaseDelay))
  /\ UNCHANGED <<orchVars, exchangeVars, post, applied, dialogue>>

Confirm ==
  /\ session.pc = "open" /\ session.steps < MaxOps
  /\ \E presented \in Presentable(session.token) :
       session' = Handled("confirm", presented, "", SeqBaseDelay,
                          confirm(presented, SeqBaseDelay))
  /\ UNCHANGED <<orchVars, exchangeVars, post, applied, dialogue>>

NextSession ==
  \/ OpenSession
  \/ GetThread
  \/ SelectOffer
  \/ BuyerMessage
  \/ Confirm

SpecSession == InitSession /\ [][NextSession]_vars

\* ------------------------------------------- the page's clarification
MaxAsked == 2

\* the model's replies: a field missing, a question of its own, neither,
\* and a category outside the demo
SizeMissing == Parsed("cycling", <<"size">>, Null)
Replies ==
  {SizeMissing, Parsed("Cycling", <<>>, "Road or commuter helmet?"),
   Parsed("cycling", <<>>, "  "), Parsed("furniture", <<"fit">>, Null)}

\* what the user and the world can do at a send: an empty draft, LLM assist
\* off, the fetch of the endpoint rejecting, the endpoint failing, or the
\* endpoint answering from a reply of the model
Send(draft, llmOn, net, upstream, parsed) ==
  [draft |-> draft, llmOn |-> llmOn, net |-> net, upstream |-> upstream,
   parsed |-> parsed]
Sends ==
  {Send("  ", TRUE, "answers", "ok", SizeMissing),
   Send("bike helmet", FALSE, "answers", "ok", SizeMissing),
   Send("bike helmet", TRUE, "rejects", "ok", SizeMissing),
   Send("bike helmet", TRUE, "answers", "failed", SizeMissing),
   Send("bike helmet", TRUE, "answers", "no_key", SizeMissing)}
    \cup {Send("bike helmet", TRUE, "answers", "ok", parsed) : parsed \in Replies}

InitClarify == OrchIdle /\ ClientIdle

\* the user sends the draft
AskAgent ==
  /\ dialogue.asked < MaxAsked
  /\ \E s \in Sends :
       dialogue' = askAgent(dialogue, s.draft, s.llmOn, s.net, s.upstream, s.parsed)
  /\ UNCHANGED <<orchVars, exchangeVars, post, applied, session>>

\* resetAll of the page
ResetAll ==
  /\ dialogue.last.ended # "none"
  /\ dialogue' = DialogueIdle
  /\ UNCHANGED <<orchVars, exchangeVars, post, applied, session>>

NextClarify ==
  \/ AskAgent
  \/ ResetAll

SpecClarify == InitClarify /\ [][NextClarify]_vars

\* ------------------------------------------------------------ properties
TwoPass == body.handler = "twopass"
Sequential == body.handler = "sequential"
Answered == pc = "done" /\ response.status = 200

\* the promise of picked store i was fulfilled with ok and some products
Succeeded(i) ==
  /\ settled[i].status = "fulfilled"
  /\ settled[i].value.ok /\ Len(settled[i].value.products) > 0

TitlesOf(i) == [k \in 1..Len(settled[i].value.products) |-> settled[i].value.products[k].title]

\* C1: in the two-pass orchestrator pass 2 runs only when pass 1 accepted
\* fewer than 3 offers, pass 2 accepts no endpoint that pass 1 accepted, and
\* no seller id occurs twice among the accepted offers.
C1_DistinctSellers ==
  TwoPass =>
    /\ pass = 2 =>
         Cardinality({k \in 1..Len(acceptedIn) : acceptedIn[k].pass = 1}) < TargetCount
    /\ \A a, b \in 1..Len(acceptedIn) :
         (acceptedIn[a].pass = 1 /\ acceptedIn[b].pass = 2)
           => acceptedIn[a].idx # acceptedIn[b].idx
    /\ \A a, b \in 1..Len(liveOffers) :
         a # b => liveOffers[a].sellerId # liveOffers[b].sellerId

\* the pool A (times out), B ("Commuter Helmet, Matte Black"), C ("Sun Hat")
\* with requiredTerms = [helmet], excludedTerms = [hat]
HelmetScenario ==
  /\ TwoPass /\ body.intent_plan = HelmetPlan /\ Len(picked) = 3
  /\ settled[1].status = "rejected"
  /\ Succeeded(2) /\ TitlesOf(2) = <<"Commuter Helmet, Matte Black">>
  /\ Succeeded(3) /\ TitlesOf(3) = <<"Sun Hat">>

\* C2: in the two-pass orchestrator an endpoint whose every product the
\* scorer rejects in a pass contributes no offer in that pass; in the helmet
\* scenario the final offers are exactly the one of B and there are 3
\* diagnostics entries.
C2_RejectedContributesNothing ==
  TwoPass =>
    /\ \A k \in 1..Len(acceptedIn) :
         pickBestProduct(settled[acceptedIn[k].idx].value.products, planForScoring,
                         acceptedIn[k].pass = 1) # 0
    /\ (Answered /\ HelmetScenario) =>
         /\ Len(response.token.offers) = 1
         /\ response.token.offers[1].sellerId = picked[2].id
         /\ Len(response.debug.storeResults) = 3

\* C3: in the sequential orchestrator the failure of one store never aborts
\* the acquisition: unless 3 offers were accepted, every candidate store has
\* been contacted when the handler answers.
C3_FailureNeverAborts ==
  (Sequential /\ Answered /\ ~enough(liveOffers)) => contacted = 1..Len(picked)

\* C4: when the handler caught a fault while acquiring offers, the fault is
\* recorded once in debug.fatal and the returned thread holds every live
\* offer accepted before the fault.
C4_PartialSuccessReturned ==
  (Answered /\ caught) =>
    /\ response.debug.on => Len(response.debug.fatal) = 1
    /\ \A k \in 1..Len(liveOffers) : SeqContains(response.token.offers, liveOffers[k])

\* C5: in the two-pass orchestrator, when the first 3 endpoints of the pool
\* succeed, no request is sent to any endpoint after those 3.
C5_EarlyExit ==
  (TwoPass /\ Len(picked) >= TargetCount /\ \A i \in 1..TargetCount : Succeeded(i))
    => contacted \subseteq 1..TargetCount

\* C6: in the two-pass orchestrator with debug enabled, every contacted
\* endpoint appears exactly once in debug.storeResults.
C6_DiagnosticsOnce ==
  (TwoPass /\ Answered /\ response.debug.on) =>
    \A i \in contacted :
      Cardinality({k \in 1..Len(response.debug.storeResults) :
                     response.debug.storeResults[k].storeId = picked[i].id}) = 1

\* every product fails strict matching, some product passes relaxed matching
StrictFailsRelaxedPasses(products) ==
  /\ \A k \in 1..Len(products) : scoreTitle(products[k].title, planForScoring, TRUE).rejected
  /\ \E k \in 1..Len(products) : ~scoreTitle(products[k].title, planForScoring, FALSE).rejected

\* C7: in the two-pass orchestrator, when every endpoint of the pool returns
\* products that all fail strict matching and pass relaxed matching, the run
\* ends with min(3, poolSize) offers, all accepted in pass 2.
C7_TwoPassFallback ==
  (TwoPass /\ Answered /\ ~caught
     /\ \A i \in 1..Len(picked) :
          Succeeded(i) /\ StrictFailsRelaxedPasses(settled[i].value.products))
    => /\ Len(liveOffers) = Min(TargetCount, Len(picked))
       /\ \A k \in 1..Len(acceptedIn) : acceptedIn[k].pass = 2

\* C8: at every point of a run of either orchestrator the live offer list
\* holds at most 3 offers, and so does the offer list of the thread and of
\* the response.
C8_AtMostThreeOffers ==
  /\ Len(liveOffers) <= TargetCount
  /\ Len(thread.offers) <= TargetCount
  /\ Len(response.token.offers) <= TargetCount
  /\ Len(response.offers) <= TargetCount

\* a run that stopped at 3 live offers although a further store had products
C8_Witness ==
  /\ Answered /\ TwoPass
  /\ Len(liveOffers) = TargetCount /\ response.token.offers = liveOffers
  /\ Len(picked) > TargetCount /\ \A i \in 1..Len(picked) : Succeeded(i)

\* C9: in the two-pass orchestrator the arrivalDelayMs of the accepted offers
\* strictly increases with acceptance order.
C9_DelaysIncrease ==
  TwoPass =>
    \A a, b \in 1..Len(liveOffers) :
      a < b => liveOffers[a].arrivalDelayMs < liveOffers[b].arrivalDelayMs

\* the tools/list exchange delivered nothing usable
ListUnusable(net) ==
  net.fault \/ net.status \notin 200..299 \/ ~net.parses \/ ~net.json.hasTools

\* C10: mcpToolsList performs exactly one exchange, returns the empty list
\* on a transport failure, a non-2xx status, a malformed body or a missing
\* tool list, and never throws.
C10_ToolsListNeverThrows ==
  cpc \in {"call", "returned", "threw"} =>
    /\ Cardinality({k \in 1..Len(exchanges) : exchanges[k].method = "tools/list"}) = 1
    /\ ~listed.thrown
    /\ ListUnusable(exchanges[1].net) => (listed.returned /\ listed.tools = <<>>)

\* the tools/call exchanges of the call that is followed stepwise
CallIdx == {k \in 1..Len(exchanges) : exchanges[k].method = "tools/call"}

ProductsOf(net) == normaliseProducts(extractPayload(net.json), storeBaseUrl(ClientStore))

\* a response that carries nothing usable: non-2xx status, a body that is no
\* JSON, a result flagged isError, or no product in the expected fields
NothingUsable(net) ==
  \/ net.status \notin 200..299
  \/ ~net.parses
  \/ net.json.isError
  \/ ProductsOf(net) = <<>>

UsableAnswer(net) == ~net.fault /\ ~NothingUsable(net)

\* C11: a transport error, a timeout or a malformed body of a tools/call
\* exchange never leaves mcpSearchProducts as an exception; when the call
\* ends with it, it ends with ok = false and an error string.
C11_CallFaultsCaptured ==
  \A k \in CallIdx :
    (exchanges[k].net.fault \/ ~exchanges[k].net.parses) =>
      /\ cpc # "threw" /\ ~result.thrown
      /\ (cpc = "returned" /\ k = Len(exchanges)) => (~result.ok /\ result.error # Null)

\* C12: when every response arrives, mcpSearchProducts never throws; a
\* tools/call response with a non-2xx status, a non-JSON body, missing
\* fields, an error object or isError is followed by the next attempt or by
\* the return of ok = false with no products, and ok = true carries the
\* products of the last response, which is a usable one.
C12_UnusableResponsesTolerated ==
  (\A k \in 1..Len(exchanges) : ~exchanges[k].net.fault) =>
    /\ cpc # "threw" /\ ~result.thrown
    /\ \A k \in CallIdx :
         NothingUsable(exchanges[k].net) =>
           \/ k < Len(exchanges)
           \/ cpc = "call" /\ attempt = exchanges[k].attempt + 1
           \/ cpc = "returned" /\ ~result.ok /\ result.products = <<>>
    /\ (cpc = "returned" /\ result.ok) =>
         /\ ~NothingUsable(exchanges[Len(exchanges)].net)
         /\ result.products = ProductsOf(exchanges[Len(exchanges)].net)

\* a call that met a 500, a non-JSON body, an error object and isError
C12_Witness ==
  /\ cpc = "returned" /\ ~result.ok /\ result.error = "Search returned no products"
  /\ Len(exchanges) = NumAttempts + 1
  /\ exchanges[2].net = CallHttp500 /\ exchanges[3].net = CallNonJson
  /\ exchanges[4].net = CallRpcError /\ exchanges[5].net = CallIsErrorProducts

\* C13: the argument shapes are tried in the fixed order, one tools/call per
\* shape; the first attempt with a non-empty product list ends the call with
\* its products and no further tools/call; without such an attempt the call
\* returns ok = false after exactly 4 attempts.
C13_AttemptOrder ==
  (cpc \in {"returned", "threw"} /\ pickSearchTool(listed.tools) # Null) =>
    /\ Cardinality(CallIdx) <= NumAttempts
    /\ \A k \in CallIdx :
         /\ exchanges[k].attempt = k - 1
         /\ exchanges[k].shape = AttemptShapes[k - 1]
         /\ UsableAnswer(exchanges[k].net) =>
              /\ k = Len(exchanges)
              /\ result.ok /\ result.products = ProductsOf(exchanges[k].net)
    /\ (\A k \in CallIdx : ~UsableAnswer(exchanges[k].net)) =>
         /\ cpc = "returned" /\ ~result.ok
         /\ Cardinality(CallIdx) = NumAttempts

\* C14: an exchange whose response and body have not been read is in flight
\* unaborted no longer than its own timeout (the timer aborts the fetch and
\* the reading of the body), an aborted exchange delivers no response, and
\* once mcpPost has left, by return or by exception, its timer is no longer
\* armed and never fires.
C14_TimeoutBoundsExchange ==
  /\ (InFlight /\ post.abortedIn = "none") =>
       /\ post.timer = "armed"
       /\ post.elapsed * 1000 <= post.timeoutMs
  /\ (post.pc = "done" /\ post.abortedIn # "none") => post.outcome = "threw"
  /\ post.pc = "done" => post.timer # "armed"
  /\ ~post.lateFire

\* the fetch was rejected before the timeout and the time of the timeout has
\* passed since
C14_Witness ==
  /\ post.pc = "done" /\ post.outcome = "threw" /\ post.net.fault
  /\ post.timer = "cleared" /\ post.elapsed * 1000 > post.timeoutMs

\* the first index of names whose name satisfies both patterns / the search
\* pattern, written out for the claim
IsMin(k, S) == k \in S /\ \A j \in S : k <= j

\* C15: pickSearchTool returns search_shop_catalog when the list holds it
\* anywhere; else the first name matching search and one of catalog, product,
\* shop; else the first name matching search; else none.
C15_SearchToolPriority ==
  applied.fn = "pickSearchTool" =>
    LET names == applied.args.names
        tool == applied.out.tool
        lower == [k \in 1..Len(names) |-> ToLowerCase(names[k])]
        anySearch == {k \in 1..Len(names) : Includes(lower[k], "search")}
        strong == {k \in anySearch : \/ Includes(lower[k], "catalog")
                                     \/ Includes(lower[k], "product")
                                     \/ Includes(lower[k], "shop")}
    IN IF \E k \in 1..Len(names) : names[k] = "search_shop_catalog"
       THEN tool = "search_shop_catalog"
       ELSE IF strong # {} THEN \E k \in strong : IsMin(k, strong) /\ tool = names[k]
       ELSE IF anySearch # {} THEN \E k \in anySearch : IsMin(k, anySearch) /\ tool = names[k]
       ELSE tool = Null

\* the exact name stands last, behind a plain search name and a strong one
C15_Witness ==
  /\ applied.fn = "pickSearchTool"
  /\ applied.args.names = <<"find_search", "Search_Products", "search_shop_catalog">>
  /\ applied.out.tool = "search_shop_catalog"

\* the terms of a plan as the scorer reads them
RequiredOf(plan) == toTerms(plan.required_terms, RequiredMax)
PreferredOf(plan) == toTerms(plan.preferred_terms, PreferredMax)
ExcludedOf(plan) == toTerms(plan.excluded_terms, ExcludedMax)

LacksRequired(title, plan) ==
  \E k \in 1..Len(RequiredOf(plan)) : ~Includes(ToLowerCase(title), RequiredOf(plan)[k])

ExcludedWithoutRequired(title, plan) ==
  /\ \E k \in 1..Len(ExcludedOf(plan)) : Includes(ToLowerCase(title), ExcludedOf(plan)[k])
  /\ \A k \in 1..Len(RequiredOf(plan)) : ~Includes(ToLowerCase(title), RequiredOf(plan)[k])

\* C16: pickBestProduct in strict mode never returns a product whose title
\* lacks a required term; when every candidate lacks one it returns none.
C16_StrictNeverLacksRequired ==
  (applied.fn = "pickBestProduct" /\ applied.args.strict) =>
    LET products == applied.args.products
        plan == applied.args.plan
        index == applied.out.index
    IN /\ index # 0 => ~LacksRequired(products[index].title, plan)
       /\ (\A k \in 1..Len(products) : LacksRequired(products[k].title, plan)) => index = 0

\* the only candidate matches a preferred term and lacks the required one
C16_Witness ==
  /\ applied.fn = "pickBestProduct" /\ applied.args.strict
  /\ applied.args.plan = HelmetPlan
  /\ applied.args.products = <<Product("Cycling Gloves, Black")>>
  /\ applied.out.index = 0

\* C17: in strict and in non-strict mode a title with an excluded term and
\* no required term is rejected by scoreTitle and never returned by
\* pickBestProduct.
C17_ExcludedWithoutRequiredRejected ==
  /\ applied.fn = "scoreTitle" =>
       (ExcludedWithoutRequired(applied.args.title, applied.args.plan)
          => applied.out.rejected)
  /\ (applied.fn = "pickBestProduct" /\ applied.out.index # 0) =>
       ~ExcludedWithoutRequired(applied.args.products[applied.out.index].title,
                                applied.args.plan)

\* "Sun Hat", excluded [hat], required [helmet], non-strict mode
C17_Witness ==
  /\ applied.fn = "scoreTitle" /\ ~applied.args.strict
  /\ applied.args.title = "Sun Hat" /\ applied.args.plan = HelmetPlan
  /\ applied.out.rejected

\* the number of terms the lower-cased title includes
Matched(title, terms) ==
  Cardinality({k \in 1..Len(terms) : Includes(ToLowerCase(title), terms[k])})

\* the candidate is rejected: empty title, a required term missing in strict
\* mode, or an excluded term without a required one
RejectedBy(title, plan, strict) ==
  \/ title = ""
  \/ strict /\ LacksRequired(title, plan)
  \/ ExcludedWithoutRequired(title, plan)

ScoreOf(title, plan) ==
  6 * Matched(title, RequiredOf(plan)) + 2 * Matched(title, PreferredOf(plan))
    - 7 * Matched(title, ExcludedOf(plan))

\* C18: pickBestProduct returns the non-rejected candidate of the highest
\* score 6 x required + 2 x preferred - 7 x excluded, the first of them in
\* source order when several share it, and none when all are rejected.
C18_HighestScoreFirstWins ==
  applied.fn = "pickBestProduct" =>
    LET products == applied.args.products
        plan == applied.args.plan
        index == applied.out.index
        kept == {k \in 1..Len(products) :
                   ~RejectedBy(products[k].title, plan, applied.args.strict)}
    IN IF kept = {} THEN index = 0
       ELSE /\ index \in kept
            /\ \A k \in kept :
                 /\ ScoreOf(products[k].title, plan) <= ScoreOf(products[index].title, plan)
                 /\ k < index =>
                      ScoreOf(products[k].title, plan) < ScoreOf(products[index].title, plan)

\* two candidates share the highest score and the first one is returned
C18_Witness ==
  /\ applied.fn = "pickBestProduct" /\ ~applied.args.strict
  /\ applied.args.plan = HelmetPlan
  /\ applied.args.products =
       <<Product("Commuter Helmet, Matte Black"), Product("Matte Black Helmet")>>
  /\ ScoreOf("Commuter Helmet, Matte Black", HelmetPlan)
       = ScoreOf("Matte Black Helmet", HelmetPlan)
  /\ applied.out.index = 1

\* the title of a candidate: its title, else its name, trimmed; "" if neither
TitleOfRaw(raw) ==
  IF raw.title # Null /\ Trim(raw.title) # "" THEN Trim(raw.title)
  ELSE IF raw.name # Null /\ Trim(raw.name) # "" THEN Trim(raw.name)
  ELSE ""

\* C19: every product normaliseProducts returns has a non-empty title; the
\* candidates without a title are left out and the others keep their order.
C19_TitledInSourceOrder ==
  applied.fn = "normaliseProducts" =>
    LET arr == applied.args.arr
        out == applied.out.products
        titled == {k \in 1..Len(arr) : TitleOfRaw(arr[k]) # ""}
    IN /\ \A i \in 1..Len(out) : out[i].title # ""
       /\ applied.args.shadow = "none" =>
            /\ Len(out) = Cardinality(titled)
            /\ \A i \in 1..Len(out) :
                 \E k \in titled :
                   /\ Cardinality({j \in titled : j <= k}) = i
                   /\ out[i].title = TitleOfRaw(arr[k])

\* an untitled candidate in front of a titled one, in {data: [...]}
C19_Witness ==
  /\ applied.fn = "normaliseProducts" /\ applied.args.container = "data"
  /\ applied.args.arr = <<UntitledRaw, GlovesRaw>>
  /\ Len(applied.out.products) = 1 /\ applied.out.products[1].title = "Cycling Gloves"

\* C20: with a non-empty storeBaseUrl every product of normaliseProducts has
\* a productUrl that is non-empty and either absolute (it starts with http,
\* the test the normaliser applies) or equal to storeBaseUrl.
C20_ProductUrlTotal ==
  (applied.fn = "normaliseProducts" /\ applied.args.storeBaseUrl # "") =>
    \A i \in 1..Len(applied.out.products) :
      LET u == applied.out.products[i].productUrl
      IN /\ u # ""
         /\ \/ Len(u) >= 4 /\ SubSeq(u, 1, 4) = "http"
            \/ u = applied.args.storeBaseUrl

\* a root-relative path and a handle behind a base with a trailing slash
C20_Witness ==
  /\ applied.fn = "normaliseProducts"
  /\ applied.args.storeBaseUrl = "https://s1.example/"
  /\ applied.args.arr = <<HelmetRaw, GlovesRaw>>
  /\ applied.out.products[1].productUrl = "https://s1.example/products/helmet"
  /\ applied.out.products[2].productUrl = "https://s1.example/products/gloves"

\* the candidates with a title, and the candidate behind the i-th product
TitledIn(arr) == {k \in 1..Len(arr) : TitleOfRaw(arr[k]) # ""}
SourceOf(arr, i) ==
  CHOOSE k \in TitledIn(arr) : Cardinality({j \in TitledIn(arr) : j <= k}) = i

\* C21: normaliseProducts uses the first container shape that yields a
\* non-empty array: a container that is present but empty does not keep the
\* titled candidates of the other container out of the result.
C21_FirstNonEmptyShape ==
  applied.fn = "normaliseProducts" =>
    LET arr == applied.args.arr
        out == applied.out.products
    IN /\ Len(out) = Cardinality(TitledIn(arr))
       /\ \A i \in 1..Len(out) : out[i].title = TitleOfRaw(arr[SourceOf(arr, i)])

\* the price string of the merchant, "" when there is none
MerchantText(raw) ==
  IF raw.priceText # Null /\ Trim(raw.priceText) # "" THEN Trim(raw.priceText) ELSE ""

\* C22: the price text of a product is the formatted string of the merchant
\* when the candidate has one, and is rebuilt from the amount and the
\* currency only otherwise.
C22_MerchantStringPreferred ==
  (applied.fn = "normaliseProducts" /\ applied.args.shadow = "none") =>
    LET arr == applied.args.arr
        out == applied.out.products
    IN \A i \in 1..Len(out) :
         LET raw == arr[SourceOf(arr, i)]
         IN out[i].priceText =
              IF MerchantText(raw) # "" THEN MerchantText(raw)
              ELSE formatPrice(raw.amount, raw.currency)

\* the digits of an amount of h hundredths: an integer when whole, two
\* decimals otherwise
AmountDigits(h) ==
  IF h % 100 = 0 THEN NatToString(h \div 100)
  ELSE NatToString(h \div 100) \o "." \o TwoDigits(h % 100)

\* the prefix of a currency: its symbol, its upper-case code and a space, or
\* nothing
CurrencyPrefix(currencyRaw) ==
  LET code == IF currencyRaw = Null THEN "" ELSE Trim(ToUpperCase(currencyRaw))
  IN IF code = "GBP" THEN "£" ELSE IF code = "EUR" THEN "€"
     ELSE IF code = "USD" THEN "$"
     ELSE IF code = "" THEN "" ELSE code \o " "

\* C23: formatPrice renders a finite number (a number, or a string that
\* spells one) as prefix and digits, and returns "" for every other amount:
\* an absent one, the empty string, a string that is no number.
C23_FormatPrice ==
  applied.fn = "formatPrice" =>
    LET amount == applied.args.amount
    IN applied.out.text =
         IF amount.kind \in {"number", "string"}
         THEN CurrencyPrefix(applied.args.currency) \o AmountDigits(amount.hundredths)
         ELSE ""

\* the stores of a registry that a selection for the category may return,
\* and the place of one of them in the order by weight descending, then id
\* ascending
EligibleIn(stores, category) ==
  {k \in 1..Len(stores) : /\ stores[k].enabled
                          /\ stores[k].category = category
                          /\ ToLowerCase(stores[k].id) \notin DEMO_EXCLUDE_IDS}
BiasOf(s) == IF s.weight < 1 THEN 1 ELSE s.weight
RankIn(stores, E, k) ==
  1 + Cardinality({j \in E : \/ BiasOf(stores[j]) > BiasOf(stores[k])
                             \/ /\ BiasOf(stores[j]) = BiasOf(stores[k])
                                /\ StrLess(stores[j].id, stores[k].id)})

\* C24: pickStoresForCategory returns min(n, eligible) different stores, all
\* enabled, of the category and not opted out: the first ones of a cyclic
\* rotation of the eligible stores in the order weight descending, id
\* ascending.
C24_PoolIsRotatedPrefix ==
  applied.fn = "pickStoresForCategory" =>
    LET stores == applied.args.stores
        out == applied.out.first
        E == EligibleIn(stores, applied.args.category)
        m == Cardinality(E)
    IN /\ Len(out) = Min(applied.args.n, m)
       /\ \A i, j \in 1..Len(out) : i # j => out[i] # out[j]
       /\ \E o \in 0..Max0(m - 1) :
            \A i \in 1..Len(out) :
              \E k \in E : /\ RankIn(stores, E, k) = ((i - 1 + o) % m) + 1
                           /\ out[i] = stores[k]

\* three of four eligible stores, rotated by one, with the heavy store last
C24_Witness ==
  /\ applied.fn = "pickStoresForCategory" /\ applied.args.stores = MixedRegistry
  /\ applied.args.category = "cycling" /\ applied.args.n = TargetCount
  /\ applied.out.offsets[1] = 1
  /\ [i \in 1..Len(applied.out.first) |-> applied.out.first[i].id] = <<"s1", "s3", "s4">>

SameHour(a, b) ==
  a.year = b.year /\ a.month = b.month /\ a.day = b.day /\ a.hour = b.hour

C28_SequentialContact ==
  Sequential =>
    /\ contacted = 1..Cardinality(contacted)
    /\ Len(acceptedIn) >= TargetCount =>
         \A i \in contacted : i <= acceptedIn[TargetCount].idx
    /\ debug.on => debug.contacted = Cardinality(contacted)

\* C30: the offers of the created thread are exactly the mock offers of the
\* category or exactly the accepted live offers; they are the live offers
\* if and only if a live offer was accepted, and the mock offers whenever
\* nothing was accepted or the acquisition failed.
C30_MockOrLive ==
  Answered =>
    LET offers == response.token.offers
        mock == makeOffersForCategory(response.token.category)
    IN /\ offers = mock \/ offers = liveOffers
       /\ offers = liveOffers <=> Len(liveOffers) >= 1
       /\ (Len(liveOffers) = 0 \/ caught) => offers = mock

\* the token is of the form payload.signature and the signature is the
\* HMAC of the payload under the server secret
ValidToken(token) == token.parts = 2 /\ token.sig = hmacWith(secret, token.payload)

\* the last operation went through a handler that decodes the token
Decoding == session.last.op \in {"get", "select-offer", "confirm"}

\* the thread the last operation was applied to, and the thread it made
Before == parse(session.last.presented.payload)
After == session.last.response.thread

\* the token of every 200 answer decodes to the thread it was made from
RoundTrip ==
  session.last.response.status = 200 =>
    /\ decodeToken(session.last.response.token) = [thrown |-> FALSE, value |-> After]
    /\ decodeToken(encodeToken(After)) = [thrown |-> FALSE, value |-> After]

\* a refusal applies no transition and issues no token
NothingApplied ==
  /\ ~session.last.response.issued
  /\ session.last.response.thread = NoSessionThread
  /\ session.token = session.last.held

C27_OffersNeverChange ==
  /\ (session.last.op # "none" /\ session.last.response.status = 200) =>
       /\ After.offers = Before.offers
       /\ After.threadId = Before.threadId /\ After.createdAt = Before.createdAt
       /\ After.requestText = Before.requestText /\ After.category = Before.category
       /\ parse(session.token.payload) = After
  /\ session.pc = "open" =>
       \E t \in SessionThreads :
         LET held == parse(session.token.payload)
         IN /\ held.offers = t.offers
            /\ held.threadId = t.threadId /\ held.createdAt = t.createdAt
            /\ held.requestText = t.requestText /\ held.category = t.category

\* a discount was negotiated on the selected offer: the terms differ from
\* the offer, the offer does not
C27_Witness ==
  /\ session.last.op = "message" /\ session.last.response.status = 200
  /\ After.status = "AGREED" /\ After.offers = MockSession.offers
  /\ After.selectedOfferId = MockSession.offers[1].id
  /\ After.terms.pricePence < MockSession.offers[1].pricePence

\* C29: confirm completes a thread (status COMPLETED, confirmed) only from
\* status AGREED; from any other status it keeps status, confirmed, terms
\* and selectedOfferId and appends one event of the assistant; no operation
\* other than confirm on an AGREED thread turns confirmed to true.
C29_ConfirmOnlyWhenAgreed ==
  (session.last.op # "none" /\ session.last.response.status = 200) =>
    /\ session.last.op = "confirm" =>
         IF Before.status = "AGREED"
         THEN After.status = "COMPLETED" /\ After.confirmed
         ELSE /\ After.status = Before.status /\ After.confirmed = Before.confirmed
              /\ After.terms = Before.terms
              /\ After.selectedOfferId = Before.selectedOfferId
              /\ Len(After.events) = Len(Before.events) + 1
              /\ SubSeq(After.events, 1, Len(Before.events)) = Before.events
              /\ After.events[Len(After.events)].who = "Your assistant"
    /\ (After.confirmed /\ ~Before.confirmed) =>
         session.last.op = "confirm" /\ Before.status = "AGREED"

\* an offer selected, terms agreed, then confirmed
C29_Witness ==
  /\ session.last.op = "confirm" /\ session.last.response.status = 200
  /\ Before.status = "AGREED" /\ ~Before.confirmed
  /\ After.status = "COMPLETED" /\ After.confirmed

\* the thread of the token the client holds
Held == parse(session.token.payload)

\* a select-offer, buyer-message or confirm operation returned a thread
Operated ==
  /\ session.last.op \in {"select-offer", "message", "confirm"}
  /\ session.last.response.status = 200

IsPrefix(s, t) == Len(s) <= Len(t) /\ SubSeq(t, 1, Len(s)) = s

\* C33: in every thread reached from a created thread by select-offer,
\* buyer-message and confirm operations, confirmed is true exactly when
\* status is COMPLETED.
C33_ConfirmedIffCompleted ==
  session.pc = "open" => (Held.confirmed <=> Held.status = "COMPLETED")

\* C34: no select-offer, buyer-message or confirm operation on a COMPLETED
\* thread changes its status, its selectedOfferId or the price and the
\* delivery days of its terms.
C34_CompletedStays ==
  (Operated /\ Before.status = "COMPLETED") =>
    /\ After.status = "COMPLETED"
    /\ After.selectedOfferId = Before.selectedOfferId
    /\ After.terms.pricePence = Before.terms.pricePence
    /\ After.terms.deliveryDays = Before.terms.deliveryDays

\* C35: selectedOfferId is null or the id of an offer of the thread; status
\* COLLECTING_OFFERS has no selection, and every other status has a
\* selection and terms with a price and delivery days.
C35_SelectionWellFormed ==
  session.pc = "open" =>
    /\ Held.status \in {"COLLECTING_OFFERS", "OFFER_SELECTED", "AGREED", "COMPLETED"}
    /\ \/ Held.selectedOfferId = Null
       \/ \E k \in 1..Len(Held.offers) : Held.offers[k].id = Held.selectedOfferId
    /\ Held.status = "COLLECTING_OFFERS" => Held.selectedOfferId = Null
    /\ Held.status # "COLLECTING_OFFERS" =>
         /\ Held.selectedOfferId # Null
         /\ Held.terms.pricePence # NullNumber
         /\ Held.terms.deliveryDays # NullNumber

\* a message on a thread without a selection, which stays COLLECTING_OFFERS
\* with null terms
C35_Witness ==
  /\ session.last.op = "message" /\ session.last.response.status = 200
  /\ Before.selectedOfferId = Null /\ Held = After
  /\ Held.status = "COLLECTING_OFFERS" /\ Held.terms.pricePence = NullNumber
  /\ Len(Held.events) = Len(Before.events) + 2

\* C36: select-offer with an offerId of no offer returns the thread as it
\* was; with the id of an offer it sets OFFER_SELECTED, selects the offer,
\* sets the terms to the offer's price and delivery days with no notes, and
\* appends two events.
C36_SelectOfferFrame ==
  (session.last.op = "select-offer" /\ session.last.response.status = 200) =>
    IF \A k \in 1..Len(Before.offers) : Before.offers[k].id # session.last.arg
    THEN After = Before
    ELSE \E k \in 1..Len(Before.offers) :
           /\ Before.offers[k].id = session.last.arg
           /\ Len(After.events) = Len(Before.events) + 2
           /\ IsPrefix(Before.events, After.events)
           /\ After = [Before EXCEPT
                         !.status = "OFFER_SELECTED",
                         !.selectedOfferId = session.last.arg,
                         !.events = After.events,
                         !.terms = [pricePence |-> Before.offers[k].pricePence,
                                    deliveryDays |-> Before.offers[k].deliveryDays,
                                    notes |-> <<>>]]

\* the offer of an agreed discount selected again: the terms are back at
\* its listed price, without notes
C36_Witness ==
  /\ session.last.op = "select-offer" /\ session.last.response.status = 200
  /\ Before.status = "AGREED" /\ Before.selectedOfferId = session.last.arg
  /\ Before.terms.pricePence < After.terms.pricePence
  /\ Before.terms.notes # <<>> /\ After.terms.notes = <<>>
  /\ After.status = "OFFER_SELECTED"

\* C37: when every offer is listed at or above its minPricePence, the price
\* of the terms is never below the selected offer's minPricePence, the
\* delivery days are never below 1, and they are the offer's own when its
\* policy forbids delivery upgrades.
C37_TermsWithinPolicy ==
  (/\ session.pc = "open" /\ Held.selectedOfferId # Null
   /\ \A j \in 1..Len(Held.offers) :
        Held.offers[j].pricePence >= Held.offers[j].policy.minPricePence) =>
    \A k \in 1..Len(Held.offers) :
      Held.offers[k].id = Held.selectedOfferId =>
        /\ Held.terms.pricePence >= Held.offers[k].policy.minPricePence
        /\ Held.terms.deliveryDays >= 1
        /\ ~Held.offers[k].policy.canUpgradeDelivery =>
             Held.terms.deliveryDays >= Held.offers[k].deliveryDays

\* a second discount asked for, which stops at the offer's minPricePence
C37_Witness ==
  /\ session.last.op = "message" /\ session.last.response.status = 200
  /\ Held = After
  /\ \E k \in 1..Len(Held.offers) :
       /\ Held.offers[k].id = Held.selectedOfferId
       /\ Before.terms.pricePence < Held.offers[k].pricePence
       /\ Before.terms.pricePence - Held.offers[k].policy.maxDiscountPence
            < Held.offers[k].policy.minPricePence
       /\ Held.terms.pricePence = Held.offers[k].policy.minPricePence

C39_VisibleOffers ==
  (session.last.op = "get" /\ session.last.response.status = 200) =>
    LET t == After
        e == session.last.elapsed
        shown == session.last.response.ui.offers
    IN /\ \A k \in 1..Len(t.offers) :
            t.offers[k].arrivalDelayMs <= e <=>
              \E j \in 1..Len(shown) : shown[j] = t.offers[k]
       /\ Len(shown) = Cardinality({k \in 1..Len(t.offers) : t.offers[k].arrivalDelayMs <= e})
       /\ \A j \in 1..Len(shown) - 1 : shown[j].arrivalDelayMs <= shown[j + 1].arrivalDelayMs
       /\ \A later \in PollTimes :
            later >= e =>
              LET then == getThread(session.token, later).ui.offers
              IN \A j \in 1..Len(shown) : \E i \in 1..Len(then) : then[i] = shown[j]
       /\ session.last.response.ui.kpis.offersCount = Len(shown)
       /\ session.last.response.token = session.last.presented
       /\ session.token = session.last.held
       /\ t = Before

\* a read between the second and the third offer's arrival
C39_Witness ==
  /\ session.last.op = "get" /\ session.last.response.status = 200
  /\ Len(After.offers) = 3
  /\ Len(session.last.response.ui.offers) = 2
  /\ session.last.response.ui.kpis.offersCount = 2
  /\ session.last.elapsed < After.offers[3].arrivalDelayMs
  /\ session.last.response.token = session.token

\* the offers of one pass over `results` in pool order, from store k on,
\* added to the offers accepted so far
RECURSIVE InPoolOrder(_, _, _, _)
InPoolOrder(results, p, k, offers) ==
  IF k > Len(results) \/ enough(offers) THEN offers
  ELSE LET r == results[k].value
       IN IF results[k].status # "fulfilled" \/ ~r.ok \/ Len(r.products) = 0
          THEN InPoolOrder(results, p, k + 1, offers)
          ELSE LET best == bestOrFirst(r.products, planForScoring, p = 1)
               IN InPoolOrder(results, p, k + 1,
                    Append(offers,
                           offerFromMcpProduct(picked[k].id, best.title, best.priceText,
                                               best.imageUrl, best.productUrl,
                                               TwoPassBaseDelay + (k - 1) * TwoPassStepDelay,
                                               twoPassTrust(picked[k]), Len(offers) + 1)))

\* the strict pass, then the relaxed pass when the strict one ends short
BothPasses(results) ==
  LET first == InPoolOrder(results, 1, 1, <<>>)
  IN IF enough(first) THEN first ELSE InPoolOrder(results, 2, 1, first)

\* C32: in the two-pass handler the results are examined only when every
\* call has settled, the offers accepted are those of the two passes over
\* the settled results in pool order, whatever the order the calls
\* completed in, and a rejected call keeps no other store's result out.
C32_CompletionOrderIrrelevant ==
  (TwoPass /\ ~caught) =>
    /\ pc \in {"inner", "commit", "respond", "done"} =>
         \A i \in 1..Len(settled) : settled[i].status \in {"fulfilled", "rejected"}
    /\ pc \in {"commit", "respond", "done"} =>
         /\ liveOffers = BothPasses(settled)
         /\ \A j \in 1..Len(settled) :
              (/\ settled[j].status = "fulfilled" /\ settled[j].value.ok
               /\ Len(settled[j].value.products) > 0 /\ ~enough(liveOffers)) =>
                \E n \in 1..Len(liveOffers) : liveOffers[n].sellerId = picked[j].id
    /\ (Answered /\ Len(BothPasses(settled)) >= 1) =>
         response.token.offers = BothPasses(settled)

\* the first store's call rejected, a later store's product accepted
C32_Witness ==
  /\ TwoPass /\ Answered /\ ~caught
  /\ Len(picked) >= 3
  /\ settled[1].status = "rejected"
  /\ settled[2].status = "fulfilled" /\ settled[3].status = "fulfilled"
  /\ Len(response.token.offers) >= 2
  /\ response.token.offers[1].sellerId = picked[2].id
  /\ response.token.offers[2].sellerId = picked[3].id

\* C31: the clarify endpoint answers ASK_ONE_QUESTION exactly when the
\* history it was sent has no assistant turn, and then with a non-empty
\* next_question; with an assistant turn in the history it answers
\* BROADCAST_NOW with next_question null; and the page puts at most one
\* question to the user before it broadcasts.
C31_OneQuestionThenBroadcast ==
  LET history == dialogue.last.history
      res == dialogue.last.response
      noAssistant == \A i \in 1..Len(history) : history[i].role # "assistant"
  IN /\ res.status = 200 =>
          IF noAssistant
          THEN /\ res.next_action = "ASK_ONE_QUESTION"
               /\ res.next_question # Null /\ res.next_question # ""
          ELSE res.next_action = "BROADCAST_NOW" /\ res.next_question = Null
     /\ dialogue.asked <= 1

====
